---- MODULE Spec2Model ----
(***************************************************************************)
(* A model of the dbt project generator: the source-catalog merge of       *)
(* DBTProjectGenerator.generate_external_tables, the column resolution it  *)
(* performs (mapping document first, schema-definitions catalog second),   *)
(* the boolean coercions of the schema catalog, the watchdog               *)
(* run_with_timeout of main.py, and the full run of run_full_generation    *)
(* with its model-body, schema-document and unit-test phases.              *)
(***************************************************************************)
EXTENDS Integers, Sequences, FiniteSets, TLC

VARIABLES
    files,        \* path of a sources.yml -> its document, or NoFile
    mapping,      \* the mapping YAML document at Config.MAPPING_YAML_PATH, or NoFile
    schema_df,    \* the schema-definitions CSV (a sequence of rows), or NoFile
    prevFiles,    \* history: files before the last catalog row was processed
    last,         \* history: the last catalog row processed, with what it built
    nMerges,      \* number of catalog rows processed so far
    resolved,     \* columns resolved for a probe table (column-resolution runs)
    parsed,       \* SchemaReader's parse of schema_df (column-resolution runs)
    mainPc,       \* run_with_timeout: position of the calling thread
    workerPc,     \* run_with_timeout: position of the worker thread
    clock,        \* time units elapsed since thread.start()
    budget,       \* the timeout argument of run_with_timeout
    dur,          \* time units func takes
    behaviour,    \* what func does when it ends: returns or raises
    result,       \* result[0]
    exception,    \* exception[0]
    aliveAtJoin,  \* history: whether the worker was running when join returned
    outcome,      \* what run_with_timeout did: returned a value or raised
    report,       \* what the generate command reported, with its exit status
    inputs,       \* a run's arguments, configuration and collaborator behaviour
    phase,        \* the phase of the run the worker is in
    started,      \* history: the phases started so far, in order
    rowIdx,       \* catalog rows merged by generate_external_tables so far
    entryIdx,     \* mapping entries written by generate_models_from_mapping so far
    modelFiles,   \* path of a model .sql file -> its content, or NoFile
    schemaDocs,   \* path of a schema.yml -> its document, or NoFile
    issues,       \* what validate_schema returned, once it has run
    reports,      \* history: what was printed or logged about collaborators
    raised,       \* the exception that ended the run, if one did
    lateWrites,   \* history: files written after the timeout was raised
    effects,      \* history: the writes, requests and format calls of the model bodies
    racePc,       \* two concurrent merges: position of each run
    loaded        \* two concurrent merges: the document each run has in memory

mergeVars   == <<files, mapping, schema_df, prevFiles, last, nMerges>>
columnVars  == <<resolved, parsed>>
timeoutVars == <<mainPc, workerPc, clock, budget, dur, behaviour, result,
                 exception, aliveAtJoin, outcome, report>>
runVars     == <<inputs, phase, started, rowIdx, entryIdx, modelFiles, schemaDocs,
                 issues, reports, raised, lateWrites, effects, racePc, loaded>>
vars == <<files, mapping, schema_df, prevFiles, last, nMerges, resolved, parsed,
          mainPc, workerPc, clock, budget, dur, behaviour, result, exception,
          aliveAtJoin, outcome, report, inputs, phase, started, rowIdx, entryIdx,
          modelFiles, schemaDocs, issues, reports, raised, lateWrites, effects, racePc, loaded>>

(***************************************************************************)
(* Bounds of the model.                                                    *)
(***************************************************************************)
MaxMerges == 3
MaxStaging == 2
MaxDfRows == 2
MaxBudget == 2
MaxDur == 3

(***************************************************************************)
(* Cells of a CSV row as pandas hands them over, and Python's str(),       *)
(* str.strip(), str.lower() and truth value on them.                       *)
(***************************************************************************)
S(s) == [t |-> "str", s |-> s]
B(b) == [t |-> "bool", b |-> b]
N(n) == [t |-> "num", n |-> n]
NaN == [t |-> "nan"]
NoCol == [t |-> "nocol"]
NoFile == [nofile |-> TRUE]

Get(rec, key, default) == IF key \in DOMAIN rec THEN rec[key] ELSE default

RowGet(row, key, default) ==
    IF key \in DOMAIN row /\ row[key] # NoCol THEN row[key] ELSE default

Str(cell) ==
    CASE cell.t = "str" -> cell.s
      [] cell.t = "nan" -> "nan"
      [] cell.t = "bool" -> IF cell.b THEN "True" ELSE "False"
      [] cell.t = "num" -> IF cell.n = 0 THEN "0" ELSE "1"

Strip(s) ==
    CASE s = " customers" -> "customers"
      [] s = " primary key " -> "primary key"
      [] s = "  " -> ""
      [] OTHER -> s

Lower(s) ==
    CASE s \in {"true", "TRUE", "True"} -> "true"
      [] s \in {"false", "FALSE", "False"} -> "false"
      [] s = "YES" -> "yes"
      [] OTHER -> s

Truthy(cell) ==
    CASE cell.t = "bool" -> cell.b
      [] cell.t = "num" -> cell.n # 0
      [] cell.t = "nan" -> TRUE
      [] cell.t = "str" -> cell.s # ""

NotNull(cell) == cell.t # "nan"

RECURSIVE SeqMap(_, _)
SeqMap(F(_), s) == IF s = <<>> THEN <<>> ELSE <<F(Head(s))>> \o SeqMap(F, Tail(s))

SeqsUpTo(Elems, n) == UNION {[1..k -> Elems] : k \in 0..n}

(***************************************************************************)
(* Column resolution, generate_external_tables lines 123-180.              *)
(***************************************************************************)
StagingMatches(stg, table_name) ==
    \/ "name" \in DOMAIN stg /\ stg.name = "stg_" \o table_name
    \/ "source_table" \in DOMAIN stg /\ stg.source_table = table_name

MappingColDict(col) ==
    LET base == [name |-> col.name,
                 data_type |-> Get(col, "data_type", ""),
                 description |-> Get(col, "description", "")]
        q == IF "quote" \in DOMAIN col THEN [quote |-> col.quote] ELSE <<>>
        a == IF "alias" \in DOMAIN col THEN [alias |-> col.alias] ELSE <<>>
        e == IF "expression" \in DOMAIN col THEN [expression |-> col.expression] ELSE <<>>
    IN  base @@ q @@ a @@ e

StagingModels(m) == IF m = NoFile THEN <<>> ELSE Get(m, "staging_models", <<>>)

FirstMatch(m, table_name) ==
    LET stgs == StagingModels(m)
        hits == {i \in DOMAIN stgs : StagingMatches(stgs[i], table_name)}
    IN  IF hits = {} THEN 0 ELSE CHOOSE i \in hits : \A j \in hits : i <= j

MappingColumns(m, table_name) ==
    LET i == FirstMatch(m, table_name)
    IN  IF i = 0 THEN <<>>
        ELSE SeqMap(MappingColDict, Get(StagingModels(m)[i], "columns", <<>>))

FoundInMapping(m, table_name) == FirstMatch(m, table_name) # 0

\* lines 165-171: a string is compared with 'true', anything else is kept as it is
InlineCoerce(cell) ==
    IF cell.t = "str" THEN B(Lower(cell.s) = "true") ELSE cell

IsPk(scol) == Truthy(InlineCoerce(RowGet(scol, "is_primary_key", B(FALSE))))
IsNullable(scol) == Truthy(InlineCoerce(RowGet(scol, "is_nullable", B(TRUE))))

DeriveTestsNullableFirst(scol) ==
    IF ~IsNullable(scol) THEN <<"not_null">>
    ELSE IF IsPk(scol) THEN <<"unique", "not_null">>
    ELSE <<>>

DeriveTests(scol) ==
    IF IsPk(scol) THEN <<"unique", "not_null">>
    ELSE IF ~IsNullable(scol) THEN <<"not_null">>
    ELSE <<>>

SchemaColDict(scol) ==
    LET base == [name |-> scol.column_name, data_type |-> scol.data_type]
        desc == RowGet(scol, "description", NaN)
        d == IF NotNull(desc) /\ Strip(Str(desc)) # ""
             THEN [description |-> Strip(Str(desc))] ELSE <<>>
        expr == RowGet(scol, "expression", NaN)
        e == IF NotNull(expr) /\ Strip(Str(expr)) # ""
             THEN [expression |-> Strip(Str(expr))] ELSE <<>>
        tests == DeriveTests(scol)
        t == IF tests # <<>> THEN [tests |-> tests] ELSE <<>>
    IN  base @@ d @@ e @@ t

Filtered(df, schema, table_name) ==
    LET Keep(scol) == scol.schema_name = schema /\ scol.table_name = table_name
    IN  SelectSeq(df.rows, Keep)

SchemaColumns(df, schema, table_name) ==
    SeqMap(SchemaColDict, Filtered(df, schema, table_name))

UsesCatalog(m, df, table_name) == MappingColumns(m, table_name) = <<>> /\ df # NoFile

ResolveColumnsByMatch(m, df, schema, table_name) ==
    IF ~FoundInMapping(m, table_name) /\ df # NoFile
    THEN SchemaColumns(df, schema, table_name)
    ELSE MappingColumns(m, table_name)

ResolveColumnsMixed(m, df, schema, table_name) ==
    IF df # NoFile
    THEN MappingColumns(m, table_name) \o SchemaColumns(df, schema, table_name)
    ELSE MappingColumns(m, table_name)

ResolveColumns(m, df, schema, table_name) ==
    IF UsesCatalog(m, df, table_name)
    THEN SchemaColumns(df, schema, table_name)
    ELSE MappingColumns(m, table_name)

(***************************************************************************)
(* The table descriptor of a catalog row, lines 94-121 and 179-180.        *)
(***************************************************************************)
Field(row, key, default) == Strip(Str(RowGet(row, key, S(default))))

DatabaseAlwaysDefault(row) == "default"

Database(row) == Field(row, "source_database", "default")

Schema(row) == Field(row, "source_schema", "public")

TableName(row) == Strip(Str(row.table_name))

TableDict(row, columns) ==
    LET partition_by == Field(row, "partition_by", "")
        cluster_by == Field(row, "cluster_by", "")
        refresh_frequency == Field(row, "refresh_frequency", "")
        p == IF partition_by # ""
             THEN [partitions |-> <<[name |-> partition_by, data_type |-> "date"]>>]
             ELSE <<>>
        c == IF cluster_by # "" THEN [cluster_by |-> <<cluster_by>>] ELSE <<>>
        r == IF refresh_frequency # ""
             THEN [refresh_frequency |-> refresh_frequency] ELSE <<>>
        external == [location |-> Field(row, "location", ""),
                     file_format |-> Field(row, "file_format", "")] @@ p @@ c @@ r
        cols == IF columns # <<>> THEN [columns |-> columns] ELSE <<>>
    IN  [name |-> TableName(row),
         description |-> Field(row, "description", ""),
         external |-> external] @@ cols

\* line 183-185, relative to Config.PROJECT_ROOT
PathOf(database, schema) == "models/" \o database \o "/" \o schema \o "/sources.yml"

(***************************************************************************)
(* The merge into the source document, lines 187-207.                      *)
(***************************************************************************)
NewDocument == [version |-> 2, sources |-> <<>>]

SourceIndex(sources, schema) ==
    LET hits == {i \in DOMAIN sources : sources[i].name = schema}
    IN  IF hits = {} THEN 0 ELSE CHOOSE i \in hits : \A j \in hits : i <= j

WithoutTable(tables, table_name) ==
    LET Keep(t) == t.name # table_name
    IN  SelectSeq(tables, Keep)

MergeTableNoRemove(doc, schema, table_dict) ==
    LET sources_yml == IF doc = NoFile THEN NewDocument ELSE doc
        i == SourceIndex(sources_yml.sources, schema)
    IN  IF i = 0
        THEN [sources_yml EXCEPT !.sources = Append(@,
                 [name |-> schema,
                  description |-> "External tables in " \o schema \o " schema",
                  tables |-> <<table_dict>>])]
        ELSE [sources_yml EXCEPT !.sources[i].tables = Append(@, table_dict)]

MergeTableDropSiblings(doc, schema, table_dict) ==
    LET sources_yml == IF doc = NoFile THEN NewDocument ELSE doc
    IN  [sources_yml EXCEPT !.sources =
            <<[name |-> schema,
               description |-> "External tables in " \o schema \o " schema",
               tables |-> <<table_dict>>]>>]

MergeTableInPlace(doc, schema, table_dict) ==
    LET sources_yml == IF doc = NoFile THEN NewDocument ELSE doc
        i == SourceIndex(sources_yml.sources, schema)
        Put(ts) == IF \E k \in DOMAIN ts : ts[k].name = table_dict.name
                   THEN [k \in DOMAIN ts |->
                            IF ts[k].name = table_dict.name THEN table_dict ELSE ts[k]]
                   ELSE Append(ts, table_dict)
    IN  IF i = 0
        THEN [sources_yml EXCEPT !.sources = Append(@,
                 [name |-> schema,
                  description |-> "External tables in " \o schema \o " schema",
                  tables |-> <<table_dict>>])]
        ELSE [sources_yml EXCEPT !.sources[i].tables = Put(@)]

MergeTable(doc, schema, table_dict) ==
    LET sources_yml == IF doc = NoFile THEN NewDocument ELSE doc
        i == SourceIndex(sources_yml.sources, schema)
    IN  IF i = 0
        THEN [sources_yml EXCEPT !.sources = Append(@,
                 [name |-> schema,
                  description |-> "External tables in " \o schema \o " schema",
                  tables |-> <<table_dict>>])]
        ELSE [sources_yml EXCEPT !.sources[i].tables =
                 Append(WithoutTable(@, table_dict.name), table_dict)]

\* the files after one iteration of the loop over the catalog, lines 93-220
ProcessRow(fs, m, df, row) ==
    LET schema == Schema(row)
        table_dict == TableDict(row, ResolveColumns(m, df, schema, TableName(row)))
        sources_yml_path == PathOf(Database(row), schema)
    IN  [fs EXCEPT ![sources_yml_path] = MergeTable(@, schema, table_dict)]

(***************************************************************************)
(* Inputs of the merge runs.                                               *)
(***************************************************************************)
CatalogRows ==
    [table_name : {S("customers"), S(" customers"), S("orders")},
     source_database : {NoCol, S("analytics")},
     source_schema : {NoCol, S("raw_data")},
     description : {S("Customer data from CRM")},
     location : {S("s3://bucket/raw/")},
     file_format : {S("CSV")},
     partition_by : {NaN, S("date")},
     cluster_by : {S("created_at")},
     refresh_frequency : {NoCol}]

AllPaths == {PathOf(Database(row), Schema(row)) : row \in CatalogRows}

IdColumn == [name |-> "id", data_type |-> "bigint", description |-> "Customer id",
             quote |-> TRUE]

EmailColumn == [name |-> "email", type |-> "varchar", alias |-> "email_address",
                transformation |-> "lower(email)"]

MergeMappings ==
    {NoFile,
     [staging_models |-> <<[name |-> "stg_customers", source_table |-> "customers",
                            columns |-> <<IdColumn, EmailColumn>>]>>,
      models |-> <<>>]}

DfRow(schema, table, column, type, pk, nullable, desc) ==
    [schema_name |-> schema, table_name |-> table, column_name |-> column,
     data_type |-> type, description |-> desc,
     is_nullable |-> nullable, is_primary_key |-> pk]

MergeDfs ==
    {NoFile,
     [rows |->
       <<DfRow("raw_data", "customers", "id", "bigint", B(TRUE), B(FALSE), S(" primary key ")),
         DfRow("raw_data", "orders", "order_id", "bigint", B(FALSE), B(FALSE), NaN),
         DfRow("public", "orders", "note", "varchar", B(FALSE), B(TRUE), NaN)>>]}

NoRow == [norow |-> TRUE]

ColumnsIdle == resolved = NoRow /\ parsed = NoRow

TimeoutIdle ==
    /\ mainPc = "idle" /\ workerPc = "idle" /\ clock = 0 /\ budget = 0 /\ dur = 0
    /\ behaviour = NoRow /\ result = NoRow /\ exception = NoRow
    /\ aliveAtJoin = FALSE /\ outcome = NoRow /\ report = NoRow

RunIdle ==
    /\ inputs = NoRow /\ phase = "idle" /\ started = <<>> /\ rowIdx = 0 /\ entryIdx = 0
    /\ modelFiles = NoRow /\ schemaDocs = NoRow /\ issues = NoRow /\ reports = <<>>
    /\ raised = NoRow /\ lateWrites = 0 /\ effects = <<>> /\ racePc = NoRow /\ loaded = NoRow

Init ==
    /\ files = [p \in AllPaths |-> NoFile]
    /\ mapping \in MergeMappings
    /\ schema_df \in MergeDfs
    /\ prevFiles = files
    /\ last = NoRow
    /\ nMerges = 0
    /\ ColumnsIdle
    /\ TimeoutIdle
    /\ RunIdle

\* one iteration of the loop of generate_external_tables: a catalog row is read,
\* its descriptor built, and the whole target file rewritten
ProcessCatalogRow(row) ==
    /\ nMerges < MaxMerges
    /\ files' = ProcessRow(files, mapping, schema_df, row)
    /\ prevFiles' = files
    /\ last' = [row |-> row]
    /\ nMerges' = nMerges + 1
    /\ UNCHANGED <<mapping, schema_df, resolved, parsed>>
    /\ UNCHANGED timeoutVars
    /\ UNCHANGED runVars

Next == \E row \in CatalogRows : ProcessCatalogRow(row)

Spec == Init /\ [][Next]_vars

(***************************************************************************)
(* Reading a document for the properties below.                            *)
(***************************************************************************)
RECURSIVE AllTables(_)
AllTables(sources) ==
    IF sources = <<>> THEN <<>> ELSE Head(sources).tables \o AllTables(Tail(sources))

TablesOf(doc) == IF doc = NoFile THEN <<>> ELSE AllTables(doc.sources)

NamesOf(tables) == [i \in DOMAIN tables |-> tables[i].name]

Entries(doc) ==
    IF doc = NoFile THEN {}
    ELSE UNION {{<<doc.sources[i].name, doc.sources[i].tables[k]>> :
                    k \in DOMAIN doc.sources[i].tables} : i \in DOMAIN doc.sources}

Merged == last # NoRow

\* the row's table name, database and schema as the catalog file spells them out
LastTable == IF last.row.table_name = S(" customers") THEN "customers"
             ELSE last.row.table_name.s

LastDatabase == IF last.row.source_database = NoCol THEN "default"
                ELSE last.row.source_database.s

LastSchema == IF last.row.source_schema = NoCol THEN "public"
              ELSE last.row.source_schema.s

LastPath == "models/" \o LastDatabase \o "/" \o LastSchema \o "/sources.yml"

WasPresent == \E k \in DOMAIN TablesOf(prevFiles[LastPath]) :
                 TablesOf(prevFiles[LastPath])[k].name = LastTable

\* C1: merging the table descriptor of the row just merged once more leaves every
\* document as it is, and the document holds a single entry of that table name.
C1_IdempotentMerge ==
    Merged =>
        /\ ProcessRow(files, mapping, schema_df, last.row) = files
        /\ Cardinality({k \in DOMAIN TablesOf(files[LastPath]) :
                           TablesOf(files[LastPath])[k].name = LastTable}) = 1

\* a stale entry of the table was replaced and a sibling is present
C1_Witness ==
    /\ Merged
    /\ WasPresent
    /\ Len(TablesOf(files[LastPath])) = 2
    /\ Entries(files[LastPath]) # Entries(prevFiles[LastPath])

\* C2: merging table B leaves every entry of another table name, in every document,
\* as it was, removes none of them, adds none, and the document of the row holds B.
C2_SiblingPreservation ==
    Merged =>
        /\ \A p \in AllPaths :
              {e \in Entries(prevFiles[p]) : e[2].name # LastTable}
                  = {e \in Entries(files[p]) : e[2].name # LastTable}
        /\ \E e \in Entries(files[LastPath]) : e[2].name = LastTable

\* table B is merged into a document that held a table A with columns and not B
C2_Witness ==
    /\ Merged
    /\ ~WasPresent
    /\ \E e \in Entries(prevFiles[LastPath]) :
          /\ e[2].name # LastTable
          /\ "columns" \in DOMAIN e[2]
          /\ e \in Entries(files[LastPath])

\* C3: every source document holds exactly one sources[] entry, named for the schema
\* of the document's path, and no table name twice.
C3_OneSourceUniqueTables ==
    \A d \in {"default", "analytics"}, sch \in {"public", "raw_data"} :
        LET doc == files["models/" \o d \o "/" \o sch \o "/sources.yml"]
        IN  doc # NoFile =>
              /\ Len(doc.sources) = 1
              /\ doc.sources[1].name = sch
              /\ \A i, k \in DOMAIN TablesOf(doc) :
                    TablesOf(doc)[i].name = TablesOf(doc)[k].name => i = k

\* the same table name was merged again into a document of two tables
C3_Witness ==
    /\ Merged
    /\ WasPresent
    /\ nMerges = 3
    /\ Len(TablesOf(files[LastPath])) = 2

\* C4 as claimed: a table name already present keeps its position, the order of the
\* table names of the document is the same after the merge as before.
C4_Claimed_KeepsPosition ==
    (Merged /\ WasPresent) =>
        NamesOf(TablesOf(files[LastPath])) = NamesOf(TablesOf(prevFiles[LastPath]))

\* C4 amended: the merge removes the entry of that name and appends the new descriptor,
\* so the merged table is the last entry and the other entries keep their order.
C4_MovedToEnd ==
    Merged =>
        LET before == TablesOf(prevFiles[LastPath])
            after == TablesOf(files[LastPath])
            Other(t) == t.name # LastTable
        IN  /\ after # <<>>
            /\ after[Len(after)].name = LastTable
            /\ SelectSeq(after, Other) = SelectSeq(before, Other)
            /\ Len(after) = Len(SelectSeq(before, Other)) + 1

\* the table merged again was not the last entry of its document
C4_Witness ==
    /\ Merged
    /\ WasPresent
    /\ LET before == TablesOf(prevFiles[LastPath])
       IN  before[Len(before)].name # LastTable

\* C9: a catalog row changes no document but the one at
\* models/<source_database>/<source_schema>/sources.yml ('default' and 'public' when
\* the catalog has no such column), which exists afterwards and holds the row's table.
C9_OnlyOwnDocument ==
    Merged =>
        /\ \A p \in AllPaths : p # LastPath => files[p] = prevFiles[p]
        /\ files[LastPath] # NoFile
        /\ \E e \in Entries(files[LastPath]) : e[1] = LastSchema /\ e[2].name = LastTable

\* a row without database and schema columns went to models/default/public while the
\* document of another (database, schema) pair exists
C9_Witness ==
    /\ Merged
    /\ last.row.source_database = NoCol
    /\ last.row.source_schema = NoCol
    /\ files["models/default/public/sources.yml"] # prevFiles["models/default/public/sources.yml"]
    /\ files["models/analytics/raw_data/sources.yml"] # NoFile

(***************************************************************************)
(* SchemaReader: parse_boolean and _parse_column_definition, and the       *)
(* grouping of read_schema_definitions.                                    *)
(***************************************************************************)
parse_boolean(value, default) ==
    IF value.t = "bool" THEN value.b
    ELSE IF value.t = "str" THEN Lower(value.s) = "true"
    ELSE default

DataTypeTest(data_type) ==
    IF data_type \in {"bigint", "date", "boolean"}
    THEN "dbt_utils.expression_is_true" ELSE "{}"

ParseColumnDefinition(row) ==
    LET required == ~parse_boolean(RowGet(row, "is_nullable", B(TRUE)), TRUE)
        primary_key == parse_boolean(RowGet(row, "is_primary_key", B(FALSE)), FALSE)
        unique == parse_boolean(RowGet(row, "is_unique", B(FALSE)), FALSE)
    IN  [name |-> row.column_name,
         type |-> row.data_type,
         required |-> required,
         primary_key |-> primary_key,
         unique |-> unique,
         tests |-> (IF required THEN <<"not_null">> ELSE <<>>)
                   \o (IF unique THEN <<"unique">> ELSE <<>>)
                   \o (IF primary_key THEN <<"unique">> ELSE <<>>)
                   \o (IF row.data_type # "" THEN <<DataTypeTest(row.data_type)>> ELSE <<>>)]

TableKey(row) == row.schema_name \o "." \o row.table_name

ReadSchemaDefinitionsOf(df) ==
    LET keys == {TableKey(df[i]) : i \in DOMAIN df}
        Of(key) == LET Keep(row) == TableKey(row) = key IN SelectSeq(df, Keep)
    IN  [key \in keys |->
            [schema_name |-> Of(key)[1].schema_name,
             table_name |-> Of(key)[1].table_name,
             columns |-> SeqMap(ParseColumnDefinition, Of(key))]]

(***************************************************************************)
(* Inputs of the column-resolution runs: mapping documents of up to        *)
(* MaxStaging staging entries, schema catalogs of up to MaxDfRows rows,    *)
(* and one-row catalogs whose boolean cells range over what pandas yields. *)
(***************************************************************************)
StagingEntries ==
    {[name |-> n] @@ st @@ [columns |-> cols] :
        n \in {"stg_customers", "stg_legacy"},
        st \in {<<>>, [source_table |-> "customers"]},
        cols \in {<<>>, <<IdColumn, EmailColumn>>}}

ColMappings ==
    {NoFile, [models |-> <<>>]}
        \cup {[staging_models |-> stgs, models |-> <<>>] :
                 stgs \in SeqsUpTo(StagingEntries, MaxStaging)}

ColDfRows ==
    {DfRow("raw_data", "customers", "id", "bigint", B(TRUE), B(FALSE), S(" primary key ")),
     DfRow("raw_data", "customers", "email", "varchar", B(FALSE), B(FALSE), NaN),
     DfRow("public", "customers", "id", "bigint", B(FALSE), B(TRUE), S("  "))}

ColDfs == {NoFile} \cup {[rows |-> rows] : rows \in SeqsUpTo(ColDfRows, MaxDfRows)}

BooleanCells ==
    {NoCol, NaN, B(TRUE), B(FALSE), S("true"), S("TRUE"), S("True"),
     S("false"), S("FALSE"), S("yes"), N(0), N(1)}

ProbeDfs ==
    {[rows |-> <<DfRow("raw_data", "customers", "id", "bigint", pk, nullable, NaN)>>] :
        pk \in BooleanCells, nullable \in BooleanCells}

ProbeRows ==
    [table_name : {S("customers"), S("orders")},
     source_database : {S("analytics")},
     source_schema : {NoCol, S("raw_data")},
     description : {S("Customer data from CRM")},
     location : {S("s3://bucket/raw/customers/")},
     file_format : {S("CSV")}]

MergeIdle ==
    /\ files = [p \in AllPaths |-> NoFile]
    /\ prevFiles = files
    /\ last = NoRow
    /\ nMerges = 0

InitColumns ==
    /\ \/ mapping \in ColMappings /\ schema_df \in ColDfs
       \/ mapping = NoFile /\ schema_df \in ProbeDfs
    /\ resolved = NoRow
    /\ parsed = NoRow
    /\ MergeIdle
    /\ TimeoutIdle
    /\ RunIdle

\* lines 94-180 for one catalog row: the descriptor it builds, with the branch taken
\* at line 148
BuildDescriptor(row) ==
    /\ resolved = NoRow
    /\ resolved' =
          [row |-> row,
           from_catalog |-> UsesCatalog(mapping, schema_df, TableName(row)),
           table_dict |-> TableDict(row,
               ResolveColumns(mapping, schema_df, Schema(row), TableName(row)))]
    /\ UNCHANGED <<files, mapping, schema_df, prevFiles, last, nMerges, parsed>>
    /\ UNCHANGED timeoutVars
    /\ UNCHANGED runVars

\* SchemaReader.read_schema_definitions on the same catalog file
ReadSchemaDefinitions ==
    /\ parsed = NoRow
    /\ schema_df # NoFile
    /\ parsed' = [tables |-> ReadSchemaDefinitionsOf(schema_df.rows)]
    /\ UNCHANGED <<files, mapping, schema_df, prevFiles, last, nMerges, resolved>>
    /\ UNCHANGED timeoutVars
    /\ UNCHANGED runVars

NextColumns ==
    \/ \E row \in ProbeRows : BuildDescriptor(row)
    \/ ReadSchemaDefinitions

SpecColumns == InitColumns /\ [][NextColumns]_vars

(***************************************************************************)
(* Properties of the column resolution.                                    *)
(***************************************************************************)
Built == resolved # NoRow

BuiltTable == IF resolved.row.table_name = S(" customers") THEN "customers"
              ELSE resolved.row.table_name.s

BuiltSchema == IF resolved.row.source_schema = NoCol THEN "public"
               ELSE resolved.row.source_schema.s

BuiltColumns == IF "columns" \in DOMAIN resolved.table_dict
                THEN resolved.table_dict.columns ELSE <<>>

\* the columns listed by the staging entry the lookup stops at (the first that matches)
MatchedColumns ==
    IF FirstMatch(mapping, BuiltTable) = 0 THEN <<>>
    ELSE StagingModels(mapping)[FirstMatch(mapping, BuiltTable)].columns

CatalogRowsOfTable ==
    IF schema_df = NoFile THEN <<>> ELSE Filtered(schema_df, BuiltSchema, BuiltTable)

SomeEntryMatches ==
    \E i \in DOMAIN StagingModels(mapping) :
        LET stg == StagingModels(mapping)[i]
        IN  \/ stg.name = "stg_" \o BuiltTable
            \/ "source_table" \in DOMAIN stg /\ stg.source_table = BuiltTable

\* C6 as claimed: with a schema catalog at hand, its rows are used for the table
\* exactly when no staging entry matches the table.
C6_Claimed_CatalogIffNoMatch ==
    (Built /\ schema_df # NoFile /\ CatalogRowsOfTable # <<>>) =>
        /\ resolved.from_catalog <=> ~SomeEntryMatches
        /\ SomeEntryMatches => \A k \in DOMAIN BuiltColumns :
                                  "tests" \notin DOMAIN BuiltColumns[k]

\* C6 amended: the catalog is used exactly when the mapping yields no column for the
\* table: no entry matches, or the first matching entry lists no columns.
C6_CatalogIffNoMappingColumns ==
    (Built /\ schema_df # NoFile) =>
        /\ resolved.from_catalog <=> (MatchedColumns = <<>>)
        /\ MatchedColumns = <<>> =>
              /\ Len(BuiltColumns) = Len(CatalogRowsOfTable)
              /\ \A k \in DOMAIN BuiltColumns :
                    /\ BuiltColumns[k].name = CatalogRowsOfTable[k].column_name
                    /\ BuiltColumns[k].data_type = CatalogRowsOfTable[k].data_type
        /\ MatchedColumns # <<>> => Len(BuiltColumns) = Len(MatchedColumns)

\* an entry matches the table but lists no columns, and the catalog's rows are used
C6_Witness ==
    /\ Built
    /\ schema_df # NoFile
    /\ SomeEntryMatches
    /\ MatchedColumns = <<>>
    /\ BuiltColumns # <<>>
    /\ resolved.from_catalog

CellTrue == {B(TRUE), S("true"), S("TRUE"), S("True")}

CellFalse == {B(FALSE), S("false"), S("FALSE")}

\* C7: a catalog column is tested unique and not_null when is_primary_key is true,
\* whatever is_nullable is; not_null when is_primary_key is not true and is_nullable is
\* false; and has no tests key otherwise.
C7_TestDerivation ==
    (Built /\ resolved.from_catalog) =>
        /\ Len(BuiltColumns) = Len(CatalogRowsOfTable)
        /\ \A k \in DOMAIN BuiltColumns :
              LET c == BuiltColumns[k]
                  row == CatalogRowsOfTable[k]
                  pk == row.is_primary_key
                  nullable == row.is_nullable
              IN  /\ IsPk(row) => "tests" \in DOMAIN c /\ c.tests = <<"unique", "not_null">>
                  /\ (~IsPk(row) /\ ~IsNullable(row)) =>
                        "tests" \in DOMAIN c /\ c.tests = <<"not_null">>
                  /\ (~IsPk(row) /\ IsNullable(row)) => "tests" \notin DOMAIN c
                  /\ pk \in CellTrue =>
                        "tests" \in DOMAIN c /\ c.tests = <<"unique", "not_null">>
                  /\ (pk \in CellFalse \cup {NoCol} /\ nullable \in CellFalse) =>
                        "tests" \in DOMAIN c /\ c.tests = <<"not_null">>
                  /\ (pk \in CellFalse \cup {NoCol} /\ nullable \in CellTrue \cup {NoCol}) =>
                        "tests" \notin DOMAIN c

\* a primary key that is also declared not nullable: the primary-key rule wins
C7_Witness ==
    /\ Built
    /\ resolved.from_catalog
    /\ \E k \in DOMAIN BuiltColumns :
          /\ CatalogRowsOfTable[k].is_primary_key = S("TRUE")
          /\ CatalogRowsOfTable[k].is_nullable = B(FALSE)
          /\ BuiltColumns[k].tests = <<"unique", "not_null">>

\* the truth values the documentation gives a cell: true for native true and the
\* string 'true' in any case, false for native false and the string 'false', the
\* default for anything else
Documented(cell, default) ==
    IF cell \in CellTrue THEN TRUE
    ELSE IF cell \in CellFalse THEN FALSE
    ELSE default

\* C8 as claimed: for every row of the schema catalog, the merger's coercion and
\* SchemaReader's parse_boolean give is_primary_key and is_nullable the documented
\* truth value (default false, respectively true), and so agree with each other.
C8_Claimed_Coercion ==
    (Built /\ parsed # NoRow /\ schema_df # NoFile) =>
        \A i \in DOMAIN schema_df.rows :
            LET row == schema_df.rows[i]
                Same(col) == col.name = row.column_name
                cols == SelectSeq(parsed.tables[TableKey(row)].columns, Same)
            IN  \A k \in DOMAIN cols :
                   /\ cols[k].primary_key = Documented(row.is_primary_key, FALSE)
                   /\ cols[k].required = ~Documented(row.is_nullable, TRUE)
                   /\ IsPk(row) = Documented(row.is_primary_key, FALSE)
                   /\ IsNullable(row) = Documented(row.is_nullable, TRUE)
                   /\ IsPk(row) = cols[k].primary_key
                   /\ IsNullable(row) = ~cols[k].required

(***************************************************************************)
(* run_with_timeout (main.py lines 22-44) called by the generate command   *)
(* (lines 71-99).  Time is counted in units; a thread that can take a step *)
(* takes it before the next unit passes, so a delay is never longer than   *)
(* stated, and steps that fall into the same unit interleave freely.       *)
(***************************************************************************)
None == [none |-> TRUE]

Behaviours ==
    {[kind |-> "return", value |-> "success"],
     [kind |-> "raise", exc |-> "ValueError"],
     [kind |-> "raise", exc |-> "TimeoutError"]}

InitTimeout ==
    /\ mainPc = "start"
    /\ workerPc = "idle"
    /\ clock = 0
    /\ budget \in -1..MaxBudget
    /\ dur \in 0..MaxDur
    /\ behaviour \in Behaviours
    /\ result = None
    /\ exception = None
    /\ aliveAtJoin = FALSE
    /\ outcome = NoRow
    /\ report = NoRow
    /\ MergeIdle
    /\ mapping = NoFile
    /\ schema_df = NoFile
    /\ ColumnsIdle
    /\ RunIdle

idleVars == <<files, mapping, schema_df, prevFiles, last, nMerges, resolved, parsed>>

\* lines 33-35
ThreadStart ==
    /\ mainPc = "start"
    /\ mainPc' = "join"
    /\ workerPc' = "running"
    /\ UNCHANGED <<clock, budget, dur, behaviour, result, exception, aliveAtJoin,
                   outcome, report>>
    /\ UNCHANGED idleVars
    /\ UNCHANGED runVars

\* line 29: func returns
TargetReturns ==
    /\ workerPc = "running"
    /\ clock = dur
    /\ behaviour.kind = "return"
    /\ result' = behaviour.value
    /\ workerPc' = "done"
    /\ UNCHANGED <<mainPc, clock, budget, dur, behaviour, exception, aliveAtJoin,
                   outcome, report>>
    /\ UNCHANGED idleVars
    /\ UNCHANGED runVars

\* lines 30-31: func raises
TargetRaises ==
    /\ workerPc = "running"
    /\ clock = dur
    /\ behaviour.kind = "raise"
    /\ exception' = [exc |-> behaviour.exc, raised_by |-> "func"]
    /\ workerPc' = "done"
    /\ UNCHANGED <<mainPc, clock, budget, dur, behaviour, result, aliveAtJoin,
                   outcome, report>>
    /\ UNCHANGED idleVars
    /\ UNCHANGED runVars

JoinWaitsForWorker == workerPc = "done"

\* line 36: join returns when the thread has ended or the timeout has elapsed
JoinMayReturn == workerPc = "done" \/ clock >= budget

Join ==
    /\ mainPc = "join"
    /\ JoinMayReturn
    /\ mainPc' = "check"
    /\ aliveAtJoin' = (workerPc # "done")
    /\ UNCHANGED <<workerPc, clock, budget, dur, behaviour, result, exception,
                   outcome, report>>
    /\ UNCHANGED idleVars
    /\ UNCHANGED runVars

\* lines 38-39
RaiseTimeout ==
    /\ mainPc = "check"
    /\ workerPc # "done"
    /\ outcome' = [kind |-> "raise",
                   exception |-> [exc |-> "TimeoutError", raised_by |-> "run_with_timeout"]]
    /\ mainPc' = "called"
    /\ UNCHANGED <<workerPc, clock, budget, dur, behaviour, result, exception,
                   aliveAtJoin, report>>
    /\ UNCHANGED idleVars
    /\ UNCHANGED runVars

\* lines 41-42
ReRaise ==
    /\ mainPc = "check"
    /\ workerPc = "done"
    /\ exception # None
    /\ outcome' = [kind |-> "raise", exception |-> exception]
    /\ mainPc' = "called"
    /\ UNCHANGED <<workerPc, clock, budget, dur, behaviour, result, exception,
                   aliveAtJoin, report>>
    /\ UNCHANGED idleVars
    /\ UNCHANGED runVars

\* line 44
ReturnResult ==
    /\ mainPc = "check"
    /\ workerPc = "done"
    /\ exception = None
    /\ outcome' = [kind |-> "return", value |-> result]
    /\ mainPc' = "called"
    /\ UNCHANGED <<workerPc, clock, budget, dur, behaviour, result, exception,
                   aliveAtJoin, report>>
    /\ UNCHANGED idleVars
    /\ UNCHANGED runVars

\* the generate command, lines 89-99
GenerateReport ==
    IF outcome.kind = "return"
    THEN [message |-> "dbt project generated successfully", exit |-> 0]
    ELSE IF outcome.exception.exc = "TimeoutError"
    THEN [message |-> "Operation timed out after 50 seconds", exit |-> 1]
    ELSE [message |-> "Error generating project", exit |-> 1]

Generate ==
    /\ mainPc = "called"
    /\ report' = GenerateReport
    /\ mainPc' = "done"
    /\ UNCHANGED <<workerPc, clock, budget, dur, behaviour, result, exception,
                   aliveAtJoin, outcome>>
    /\ UNCHANGED idleVars
    /\ UNCHANGED runVars

\* a unit of time passes: func is still at work, and the caller is blocked in join
\* with budget left or is through
Tick ==
    /\ workerPc = "running"
    /\ clock < dur
    /\ \/ mainPc = "join" /\ ~JoinMayReturn
       \/ mainPc = "done"
    /\ clock' = clock + 1
    /\ UNCHANGED <<mainPc, workerPc, budget, dur, behaviour, result, exception,
                   aliveAtJoin, outcome, report>>
    /\ UNCHANGED idleVars
    /\ UNCHANGED runVars

NextTimeout ==
    \/ ThreadStart
    \/ TargetReturns
    \/ TargetRaises
    \/ Join
    \/ RaiseTimeout
    \/ ReRaise
    \/ ReturnResult
    \/ Generate
    \/ Tick

SpecTimeout == InitTimeout /\ [][NextTimeout]_vars

(***************************************************************************)
(* Properties of run_with_timeout.                                         *)
(***************************************************************************)
Called == outcome # NoRow

WatchdogTimeout ==
    /\ outcome.kind = "raise"
    /\ outcome.exception = [exc |-> "TimeoutError", raised_by |-> "run_with_timeout"]

\* the outcome is what func did: its value returned, or the exception it raised
FuncOutcome ==
    IF behaviour.kind = "return"
    THEN outcome = [kind |-> "return", value |-> behaviour.value]
    ELSE outcome = [kind |-> "raise",
                    exception |-> [exc |-> behaviour.exc, raised_by |-> "func"]]

Effective == IF budget < 0 THEN 0 ELSE budget

\* C10 as claimed: against a func that takes time, run_with_timeout raises its
\* TimeoutError exactly when func had not finished when the budget elapsed (join came
\* back with the thread still running);
\* otherwise the outcome is func's; generate exits non-zero on the timeout and reports
\* success when func returned.
C10_Claimed_TimeoutIffUnfinishedAtBudget ==
    (Called /\ dur >= 1) =>
        /\ WatchdogTimeout <=> aliveAtJoin
        /\ ~aliveAtJoin => FuncOutcome
        /\ report # NoRow =>
              /\ WatchdogTimeout => report.exit = 1
              /\ outcome.kind = "return" => report.exit = 0

\* C10 amended: TimeoutError is raised exactly when func is still running at the
\* is_alive check after the join: always when func takes longer than the budget,
\* never when it finished within the budget, and either way when it finishes in the
\* unit in which the budget elapses; without the timeout the outcome is func's;
\* generate exits non-zero on the timeout and reports success when func returned.
C10_TimeoutIffRunningAtCheck ==
    Called =>
        /\ dur > Effective => WatchdogTimeout
        /\ dur < Effective => ~WatchdogTimeout
        /\ WatchdogTimeout => aliveAtJoin /\ clock >= budget /\ dur >= Effective
        /\ ~WatchdogTimeout => FuncOutcome
        /\ report # NoRow =>
              /\ WatchdogTimeout =>
                    report.exit = 1 /\ report.message = "Operation timed out after 50 seconds"
              /\ outcome.kind = "return" =>
                    report.exit = 0 /\ report.message = "dbt project generated successfully"

\* a budget of 1 against a func that takes 2: timeout raised, generate exits with 1
C10_Witness ==
    /\ budget = 1
    /\ dur = 2
    /\ Called
    /\ WatchdogTimeout
    /\ report # NoRow
    /\ report.exit = 1

(***************************************************************************)
(* What the generate command reports (lines 89-99).                        *)
(***************************************************************************)
Reported == report # NoRow

TimeoutReported == report.message = "Operation timed out after 50 seconds"

\* C11 as claimed: under a positive budget, generate reports the deadline-exceeded
\* condition exactly when the budget elapsed before the run finished, and a run that
\* fails within its budget is reported as a generation error whatever the error
\* raised by the run.
C11_Claimed_TimeoutReportIffBudgetElapsed ==
    (Reported /\ budget >= 1) =>
        /\ TimeoutReported <=> aliveAtJoin
        /\ (behaviour.kind = "raise" /\ dur < budget) =>
              report.message = "Error generating project"

(***************************************************************************)
(* Text: a string is a sequence of chunks, a chunk being a line break or a *)
(* piece of text without line breaks.  str.splitlines and '\n'.join.       *)
(***************************************************************************)
MaxText == 3

NL == "\n"

CR == "\r"

RECURSIVE SplitFrom(_, _, _)
SplitFrom(text, cur, acc) ==
    IF text = <<>> THEN (IF cur = <<>> THEN acc ELSE Append(acc, cur))
    ELSE IF Head(text) = CR /\ Len(text) >= 2 /\ text[2] = NL
    THEN SplitFrom(SubSeq(text, 3, Len(text)), <<>>, Append(acc, cur))
    ELSE IF Head(text) \in {NL, CR}
    THEN SplitFrom(Tail(text), <<>>, Append(acc, cur))
    ELSE SplitFrom(Tail(text), Append(cur, Head(text)), acc)

\* str.splitlines(): line breaks are \n, \r and \r\n, a final line break ends the
\* last line without opening another
SplitLines(text) == SplitFrom(text, <<>>, <<>>)

RECURSIVE JoinLines(_)
JoinLines(lines) ==
    IF lines = <<>> THEN <<>>
    ELSE IF Len(lines) = 1 THEN lines[1]
    ELSE lines[1] \o <<NL>> \o JoinLines(Tail(lines))

(***************************************************************************)
(* generate_models_from_mapping, lines 264-315.                            *)
(***************************************************************************)
ModelEntriesOf(m) == Get(m, "staging_models", <<>>) \o Get(m, "models", <<>>)

ModelPathByMartType(entry) ==
    LET model_type == Get(entry, "type", "staging")
    IN  IF model_type = "marts"
        THEN "models/marts/" \o Get(entry, "mart_type", "dimensions") \o "/"
                 \o entry.name \o ".sql"
        ELSE "models/" \o model_type \o "/" \o entry.name \o ".sql"

\* lines 271-279, relative to project_root
ModelPath(entry) ==
    LET model_type == Get(entry, "type", "staging")
    IN  IF model_type = "marts" THEN "models/marts/" \o entry.name \o ".sql"
        ELSE "models/" \o model_type \o "/" \o entry.name \o ".sql"

ContentNoFallback(response, default) ==
    LET choices == Get(response, "choices", <<[role |-> "none"]>>)
        message == Get(choices[1], "message", [role |-> "none"])
    IN  Get(message, "content", <<>>)

\* response.get("choices", [{}])[0].get("message", {}).get("content", default)
Content(response, default) ==
    LET choices == Get(response, "choices", <<[role |-> "none"]>>)
        message == Get(choices[1], "message", [role |-> "none"])
    IN  Get(message, "content", default)

CommentLineBare(line) == line

\* f'-- {line}'
CommentLine(line) == <<"-- ">> \o line

\* line 311
CommentedSql(tester_comment, sql_code) ==
    JoinLines(SeqMap(CommentLine, SplitLines(tester_comment)))
        \o <<NL>> \o JoinLines(SeqMap(CommentLine, SplitLines(sql_code)))

\* SQLFluffFormatter.format_sql on the string it is handed: the text it returns and
\* what it logs; did is what the sqlfluff process did
FormatSql(sql_code, did) ==
    CASE did = "fixed" -> [text |-> sql_code \o <<NL>>, log |-> <<>>]
      [] did = "failed" ->
            [text |-> sql_code,
             log |-> <<[who |-> "formatter", what |-> "SQLFluff fix failed"]>>]
      [] did = "timeout" ->
            [text |-> sql_code,
             log |-> <<[who |-> "formatter", what |-> "SQLFluff formatting timed out"]>>]
      [] did = "absent" ->
            [text |-> sql_code,
             log |-> <<[who |-> "formatter", what |-> "Error running SQLFluff"]>>]

FormatterOutcomes == {"fixed", "failed", "timeout", "absent"}

\* the model file of one mapping entry, lines 304-313
ModelFileOf(sql_response, tester_response) ==
    LET sql_code == Content(sql_response, <<"-- No code generated">>)
        tester_comment == Content(tester_response, <<"No tester suggestions.">>)
    IN  [text |-> CommentedSql(tester_comment, sql_code)]

\* line 297
LogPath(entry) == "logs/model_generation_" \o entry.name \o ".log"

EntryEffectsRequestsFirst(entry) ==
    <<[op |-> "request", target |-> "model", entry |-> entry.name],
      [op |-> "write", target |-> LogPath(entry), entry |-> entry.name],
      [op |-> "request", target |-> "checklist", entry |-> entry.name],
      [op |-> "write", target |-> ModelPath(entry), entry |-> entry.name],
      [op |-> "format", target |-> ModelPath(entry), entry |-> entry.name]>>

\* what one iteration of the loop does outside the process, in order: the audit
\* record (lines 296-302), the two requests (304, 308), the model file
\* (312-313) and the call of the formatter on the path (315)
EntryEffects(entry) ==
    <<[op |-> "write", target |-> LogPath(entry), entry |-> entry.name],
      [op |-> "request", target |-> "model", entry |-> entry.name],
      [op |-> "request", target |-> "checklist", entry |-> entry.name],
      [op |-> "write", target |-> ModelPath(entry), entry |-> entry.name],
      [op |-> "format", target |-> ModelPath(entry), entry |-> entry.name]>>

(***************************************************************************)
(* The phases of a run and the order run_full_generation gives them        *)
(* (lines 416-438); a function called on its own is a run of one phase.    *)
(***************************************************************************)
CsvPassed(in) == in.csv_path # ""

CsvKnown(in) == in.csv_path # "" \/ in.SOURCE_CSV_PATH # ""

MappingKnown(in) == in.mapping_yaml_path # "" \/ in.MAPPING_YAML_PATH # ""

AfterDirectories(in) ==
    IF CsvKnown(in) THEN "merge-sources"
    ELSE IF MappingKnown(in) THEN "generate-model-bodies"
    ELSE "end"

AfterPhase(ph, in) ==
    IF in.call # "run_full_generation" THEN "end"
    ELSE CASE ph = "validate-config" -> "create-directories"
           [] ph = "create-directories" -> AfterDirectories(in)
           [] ph = "merge-sources" ->
                 (IF MappingKnown(in) THEN "generate-model-bodies" ELSE "end")
           [] ph = "generate-model-bodies" -> "generate-schema-documents"
           [] ph = "generate-schema-documents" -> "generate-unit-tests"
           [] ph = "generate-unit-tests" -> "end"

Enter(ph) == IF ph \in {"end", "failed"} THEN started ELSE Append(started, ph)

WorkerStopsAtTimeout == inputs.watchdog => (workerPc = "running" /\ outcome = NoRow)

\* the worker is not stopped by anything but the end of the process
WorkerMayRun == inputs.watchdog => (workerPc = "running" /\ mainPc # "exited")

\* files written once the watchdog has raised its TimeoutError
Late(n) == IF outcome # NoRow THEN lateWrites + n ELSE lateWrites

(***************************************************************************)
(* Runs of generate_models_from_mapping on its own: every pair of replies  *)
(* of the text-generation service, on mapping documents of one and two     *)
(* entries.                                                                *)
(***************************************************************************)
Texts == SeqsUpTo({"SELECT 1", NL, CR}, MaxText)

Responses ==
    {[choices |-> <<[message |-> [content |-> t]]>>] : t \in Texts}
        \cup {[error |-> "Request failed"],
              [choices |-> <<[message |-> [role |-> "assistant"]]>>]}

StgCustomers == [name |-> "stg_customers", source_table |-> "customers",
                 columns |-> <<IdColumn, EmailColumn>>]

DimCustomers == [name |-> "dim_customers", type |-> "marts", mart_type |-> "dimensions",
                 columns |-> <<IdColumn>>]

IntOrders == [name |-> "int_orders", type |-> "intermediate", columns |-> <<IdColumn>>]

ModelMappings ==
    {[staging_models |-> <<StgCustomers>>],
     [staging_models |-> <<StgCustomers>>, models |-> <<DimCustomers>>],
     [models |-> <<DimCustomers, DimCustomers>>],
     [models |-> <<IntOrders>>]}

AllModelPaths == {ModelPath(entry) : entry \in {StgCustomers, DimCustomers, IntOrders}}

InitModels ==
    /\ mapping \in ModelMappings
    /\ inputs \in [call : {"generate_models_from_mapping"}, watchdog : {FALSE},
                   sql_response : Responses, tester_response : Responses]
    /\ phase = "generate-model-bodies"
    /\ started = <<"generate-model-bodies">>
    /\ entryIdx = 0
    /\ modelFiles = [p \in AllModelPaths |-> NoFile]
    /\ reports = <<>>
    /\ rowIdx = 0 /\ schemaDocs = NoRow /\ issues = NoRow /\ raised = NoRow
    /\ lateWrites = 0 /\ effects = <<>> /\ racePc = NoRow /\ loaded = NoRow
    /\ schema_df = NoFile
    /\ MergeIdle
    /\ ColumnsIdle
    /\ TimeoutIdle

\* one iteration of the loop of generate_models_from_mapping: two requests, the model
\* file written, the format pass on the path of the file
GenerateModel(fmt) ==
    /\ phase = "generate-model-bodies"
    /\ WorkerMayRun
    /\ mapping # NoFile
    /\ entryIdx < Len(ModelEntriesOf(mapping))
    /\ LET entry == ModelEntriesOf(mapping)[entryIdx + 1]
           formatted == FormatSql(<<ModelPath(entry)>>, fmt)
       IN  /\ modelFiles' = [modelFiles EXCEPT ![ModelPath(entry)] =
                                ModelFileOf(inputs.sql_response, inputs.tester_response)]
           /\ reports' = reports \o formatted.log
    /\ entryIdx' = entryIdx + 1
    /\ lateWrites' = Late(1)
    /\ effects' = effects \o EntryEffects(ModelEntriesOf(mapping)[entryIdx + 1])
    /\ UNCHANGED <<inputs, phase, started, rowIdx, schemaDocs, issues, raised,
                   racePc, loaded>>
    /\ UNCHANGED <<mergeVars, columnVars, timeoutVars>>

\* the loop is through: generate_models_from_mapping returns
ModelsReturn ==
    /\ phase = "generate-model-bodies"
    /\ WorkerMayRun
    /\ mapping # NoFile
    /\ entryIdx = Len(ModelEntriesOf(mapping))
    /\ phase' = AfterPhase(phase, inputs)
    /\ started' = Enter(AfterPhase(phase, inputs))
    /\ UNCHANGED <<inputs, rowIdx, entryIdx, modelFiles, schemaDocs, issues, reports,
                   raised, lateWrites, effects, racePc, loaded>>
    /\ UNCHANGED <<mergeVars, columnVars, timeoutVars>>

NextModels ==
    \/ \E fmt \in FormatterOutcomes : GenerateModel(fmt)
    \/ ModelsReturn

SpecModels == InitModels /\ [][NextModels]_vars

(***************************************************************************)
(* Properties of the model files.                                          *)
(***************************************************************************)
LinesOfFile(file) == SplitLines(file.text)

Commented(line) == line # <<>> /\ line[1] = "-- "

SqlText == Content(inputs.sql_response, <<"-- No code generated">>)

TesterText == Content(inputs.tester_response, <<"No tester suggestions.">>)

\* the lines of a text, each behind the comment marker
Marked(text) == [k \in DOMAIN SplitLines(text) |-> <<"-- ">> \o SplitLines(text)[k]]

\* C16 as claimed: every line of every model file on disk begins with '-- ', and the
\* file is the checklist's lines followed by the SQL body's lines.
C16_Claimed_EveryLineCommented ==
    \A p \in DOMAIN modelFiles :
        modelFiles[p] # NoFile =>
            /\ \A k \in DOMAIN LinesOfFile(modelFiles[p]) :
                  Commented(LinesOfFile(modelFiles[p])[k])
            /\ LinesOfFile(modelFiles[p]) = Marked(TesterText) \o Marked(SqlText)

\* C16 amended: every line of a model file that is not empty begins with '-- '; the
\* file is the checklist's lines followed by the SQL body's lines, each behind the
\* marker, with one empty line in front when the checklist is empty; the format pass
\* leaves the file as written.
C16_CommentOnly ==
    \A p \in DOMAIN modelFiles :
        modelFiles[p] # NoFile =>
            LET lines == LinesOfFile(modelFiles[p])
            IN  /\ \A k \in DOMAIN lines : lines[k] # <<>> => Commented(lines[k])
                /\ lines = (IF SplitLines(TesterText) = <<>> THEN << <<>> >> ELSE <<>>)
                              \o Marked(TesterText) \o Marked(SqlText)

\* a two-line SQL reply behind a one-line checklist, written and formatted
C16_Witness ==
    /\ entryIdx >= 1
    /\ SqlText = <<"SELECT 1", NL, "SELECT 1">>
    /\ TesterText = <<"SELECT 1">>
    /\ \E p \in DOMAIN modelFiles :
          /\ modelFiles[p] # NoFile
          /\ Len(LinesOfFile(modelFiles[p])) = 3

(***************************************************************************)
(* generate_schema_files (lines 317-368) with SchemaGenerator's            *)
(* generate_schema_yml and SchemaReader.validate_schema.                   *)
(***************************************************************************)
MaxModels == 2

GroupKeyByTypeOnly(entry) == "models/" \o Get(entry, "type", "marts")

\* lines 335-342
GroupKey(entry) ==
    LET model_type == Get(entry, "type", "marts")
        mart_type == Get(entry, "mart_type", "dimensions")
    IN  IF model_type = "marts" THEN "models/" \o model_type \o "/" \o mart_type
        ELSE "models/" \o model_type

\* lines 332-347: the entries of the models list, grouped, each group in list order
ModelGroups(m) ==
    LET models == Get(m, "models", <<>>)
        keys == {GroupKey(models[i]) : i \in DOMAIN models}
        Of(key) == LET Keep(entry) == GroupKey(entry) = key IN SelectSeq(models, Keep)
    IN  [key \in keys |-> Of(key)]

GenerateColumnSchemaWithTests(column) ==
    LET column_name == Get(column, "name", "")
        description == Get(column, "description", "Column " \o column_name)
        transformation == Get(column, "transformation", "")
        tests == (IF Get(column, "required", FALSE) THEN <<"not_null">> ELSE <<>>)
                 \o (IF Get(column, "primary_key", FALSE) THEN <<"unique">> ELSE <<>>)
    IN  [name |-> column_name,
         description |-> IF transformation # ""
                         THEN description \o " (Transformation: " \o transformation \o ")"
                         ELSE description]
        @@ (IF tests # <<>> THEN [tests |-> tests] ELSE <<>>)

\* SchemaGenerator._generate_column_schema up to its return at line 71
GenerateColumnSchema(column) ==
    LET column_name == Get(column, "name", "")
        description == Get(column, "description", "Column " \o column_name)
        transformation == Get(column, "transformation", "")
    IN  [name |-> column_name,
         description |-> IF transformation # ""
                         THEN description \o " (Transformation: " \o transformation \o ")"
                         ELSE description]

\* SchemaGenerator._generate_model_schema
GenerateModelSchema(entry) ==
    LET model_name == Get(entry, "name", "")
    IN  [name |-> model_name,
         description |-> Get(entry, "description", "Model for " \o model_name),
         config |-> [contract |-> [enforced |-> TRUE]],
         columns |-> SeqMap(GenerateColumnSchema, Get(entry, "columns", <<>>))]

\* SchemaGenerator.generate_schema_yml
GenerateSchemaYml(model_mappings) ==
    [version |-> 2, models |-> SeqMap(GenerateModelSchema, model_mappings)]

SchemaPath(group_path) == group_path \o "/schema.yml"

\* lines 350-357: one schema.yml per group, written whole
WriteSchemaDocs(docs, m) ==
    LET groups == ModelGroups(m)
    IN  [p \in DOMAIN docs |->
            IF \E key \in DOMAIN groups : SchemaPath(key) = p
            THEN GenerateSchemaYml(groups[CHOOSE key \in DOMAIN groups : SchemaPath(key) = p])
            ELSE docs[p]]

\* lines 321-326: the schema definitions SchemaReader holds
SchemaDefinitionsOf(df) ==
    IF df = NoFile THEN ReadSchemaDefinitionsOf(<<>>) ELSE ReadSchemaDefinitionsOf(df.rows)

\* SchemaReader.validate_schema: the issues it returns, as a set
ValidateSchema(schema_definitions) ==
    LET Names(key) == [k \in DOMAIN schema_definitions[key].columns |->
                          schema_definitions[key].columns[k].name]
        Count(key, name) == Cardinality({k \in DOMAIN Names(key) : Names(key)[k] = name})
        Duplicates(key) == {Names(key)[k] : k \in {j \in DOMAIN Names(key) :
                                                     Count(key, Names(key)[j]) > 1}}
    IN  {[issue |-> "Duplicate column names", table |-> key, names |-> Duplicates(key)] :
            key \in {k \in DOMAIN schema_definitions : Duplicates(k) # {}}}
        \cup {[issue |-> "Missing column name", table |-> key] :
                 key \in {k \in DOMAIN schema_definitions :
                             \E c \in DOMAIN schema_definitions[k].columns :
                                 schema_definitions[k].columns[c].name = ""}}
        \cup UNION {{[issue |-> "Missing data type", table |-> key,
                      column |-> schema_definitions[key].columns[c].name] :
                        c \in {d \in DOMAIN schema_definitions[key].columns :
                                  schema_definitions[key].columns[d].type = ""}} :
                    key \in DOMAIN schema_definitions}

\* lines 363-368
ValidationReport(validation_issues) ==
    IF validation_issues # {}
    THEN [who |-> "validator", what |-> "Schema validation issues found"]
    ELSE [who |-> "validator", what |-> "Schema validation passed"]

(***************************************************************************)
(* Runs of generate_schema_files on its own: mapping documents of up to    *)
(* MaxModels entries in the models list, with and without a staging entry, *)
(* and schema catalogs with and without a repeated column.                 *)
(***************************************************************************)
NameColumn == [name |-> "name", description |-> "Customer name",
               transformation |-> "trim(name)"]

\* column specs with the fields the statements after line 71 would read
TestedColumns ==
    <<[name |-> "status", type |-> "varchar", description |-> "Order status",
       transformation |-> "upper(status)", required |-> TRUE, primary_key |-> TRUE,
       accepted_values |-> <<"open", "closed">>,
       relationship |-> [to |-> "ref('dim_customers')", field |-> "id"],
       min_value |-> 0, max_value |-> 10, pattern |-> "^[a-z]+$"],
      [name |-> "amount", description |-> "Order amount", transformation |-> "",
       required |-> TRUE, min_value |-> 0]>>

SchemaEntries ==
    {[name |-> n] @@ ty @@ mt @@ [columns |-> cols] :
        n \in {"dim_customers", "fct_orders"},
        ty \in {<<>>, [type |-> "marts"], [type |-> "staging"]},
        mt \in {<<>>, [mart_type |-> "facts"]},
        cols \in {<<IdColumn, NameColumn>>, <<IdColumn, IdColumn>>, TestedColumns}}

SchemaMappings ==
    {st @@ [models |-> models] :
        st \in {<<>>, [staging_models |-> <<StgCustomers>>]},
        models \in SeqsUpTo(SchemaEntries, MaxModels)}

\* what pd.read_csv (schema_reader.py line 18) loads an empty column_name cell as:
\* the float NaN, written as str() writes it; unlike '' it is truthy, so the row
\* is not skipped at line 28 and the value becomes the column's name
EmptyCell == "nan"

SchemaDfs ==
    {NoFile,
     [rows |->
       <<DfRow("raw_data", "customers", "id", "bigint", B(TRUE), B(FALSE), NaN),
         DfRow("raw_data", "customers", "email", "varchar", B(FALSE), B(TRUE), NaN)>>],
     [rows |->
       <<DfRow("raw_data", "customers", "id", "bigint", B(TRUE), B(FALSE), NaN),
         DfRow("raw_data", "customers", "id", "varchar", B(FALSE), B(TRUE), NaN)>>],
     [rows |->
       <<DfRow("raw_data", "customers", "id", "bigint", B(TRUE), B(FALSE), NaN),
         DfRow("raw_data", "customers", EmptyCell, "varchar", B(FALSE), B(TRUE), NaN)>>]}

AllSchemaPaths ==
    {SchemaPath(GroupKey(entry)) : entry \in SchemaEntries \cup {DimCustomers, IntOrders}}

InitSchemas ==
    /\ mapping \in SchemaMappings
    /\ schema_df \in SchemaDfs
    /\ inputs = [call |-> "generate_schema_files", watchdog |-> FALSE]
    /\ phase = "generate-schema-documents"
    /\ started = <<"generate-schema-documents">>
    /\ schemaDocs = [p \in AllSchemaPaths |-> NoFile]
    /\ issues = NoRow
    /\ reports = <<>>
    /\ rowIdx = 0 /\ entryIdx = 0 /\ modelFiles = NoRow /\ raised = NoRow
    /\ lateWrites = 0 /\ effects = <<>> /\ racePc = NoRow /\ loaded = NoRow
    /\ MergeIdle
    /\ ColumnsIdle
    /\ TimeoutIdle

\* generate_schema_files: the schema definitions read, the mapping read, one document
\* written per group, the definitions validated and the issues logged
GenerateSchemaFiles ==
    /\ phase = "generate-schema-documents"
    /\ WorkerMayRun
    /\ mapping # NoFile
    /\ schemaDocs' = WriteSchemaDocs(schemaDocs, mapping)
    /\ issues' = [list |-> ValidateSchema(SchemaDefinitionsOf(schema_df))]
    /\ reports' = Append(reports, ValidationReport(ValidateSchema(SchemaDefinitionsOf(schema_df))))
    /\ lateWrites' = Late(Cardinality(DOMAIN ModelGroups(mapping)))
    /\ UNCHANGED effects
    /\ phase' = AfterPhase(phase, inputs)
    /\ started' = Enter(AfterPhase(phase, inputs))
    /\ UNCHANGED <<inputs, rowIdx, entryIdx, modelFiles, raised, racePc, loaded>>
    /\ UNCHANGED <<mergeVars, columnVars, timeoutVars>>

NextSchemas == GenerateSchemaFiles

SpecSchemas == InitSchemas /\ [][NextSchemas]_vars

(***************************************************************************)
(* Properties of the schema documents.                                     *)
(***************************************************************************)
SchemasGenerated == issues # NoRow

ModelsList == Get(mapping, "models", <<>>)

AllEntries == Get(mapping, "staging_models", <<>>) \o ModelsList

HasDuplicateColumn(entry) ==
    \E i, k \in DOMAIN entry.columns : i # k /\ entry.columns[i].name = entry.columns[k].name

\* C19 as claimed: when an entry of the mapping document repeats a column name, the
\* schema documents are written all the same, generate_schema_files returns normally,
\* and the repetition is among the validation issues reported.
C19_Claimed_DuplicateReported ==
    (SchemasGenerated /\ \E i \in DOMAIN AllEntries : HasDuplicateColumn(AllEntries[i])) =>
        /\ raised = NoRow
        /\ \A i \in DOMAIN ModelsList :
              schemaDocs[SchemaPath(GroupKey(ModelsList[i]))] # NoFile
        /\ \E issue \in issues.list : issue.issue = "Duplicate column names"
        /\ \E k \in DOMAIN reports :
              reports[k] = [who |-> "validator", what |-> "Schema validation issues found"]

\* the path the grouping rule gives an entry; an entry without a type counts as marts
ExpectedSchemaPath(entry) ==
    LET type == IF "type" \in DOMAIN entry THEN entry.type ELSE "marts"
        mart_type == IF "mart_type" \in DOMAIN entry THEN entry.mart_type ELSE "dimensions"
    IN  IF type = "marts" THEN "models/marts/" \o mart_type \o "/schema.yml"
        ELSE "models/" \o type \o "/schema.yml"

EntriesAt(p) == LET Here(entry) == ExpectedSchemaPath(entry) = p
                IN  SelectSeq(ModelsList, Here)

Runs == {1, 2}

RaceRows == {row \in CatalogRows : row.partition_by = NaN}

RacePairs ==
    {pair \in RaceRows \X RaceRows :
        /\ PathOf(Database(pair[1]), Schema(pair[1])) = PathOf(Database(pair[2]), Schema(pair[2]))
        /\ TableName(pair[1]) # TableName(pair[2])}

NoFiles == [p \in AllPaths |-> NoFile]

InitRace ==
    /\ inputs \in [call : {"generate_external_tables"}, watchdog : {FALSE}, rows : RacePairs]
    /\ files \in {NoFiles} \cup {ProcessRow(NoFiles, NoFile, NoFile, row) : row \in RaceRows}
    /\ mapping = NoFile
    /\ schema_df = NoFile
    /\ prevFiles = files
    /\ last = NoRow
    /\ nMerges = 0
    /\ racePc = [r \in Runs |-> "load"]
    /\ loaded = [r \in Runs |-> NoRow]
    /\ phase = "merge-sources"
    /\ started = <<"merge-sources">>
    /\ rowIdx = 0 /\ entryIdx = 0 /\ modelFiles = NoRow /\ schemaDocs = NoRow
    /\ issues = NoRow /\ reports = <<>> /\ raised = NoRow /\ lateWrites = 0 /\ effects = <<>>
    /\ ColumnsIdle
    /\ TimeoutIdle

RacePath(r) == PathOf(Database(inputs.rows[r]), Schema(inputs.rows[r]))

RaceMayLoadLocked(r) == racePc[r] = "load" /\ \A o \in Runs : racePc[o] # "write"

\* nothing but its own position decides whether a run may read the document
RaceMayLoad(r) == racePc[r] = "load"

\* lines 187-192: the document is read, or a new one started
RaceLoad(r) ==
    /\ RaceMayLoad(r)
    /\ loaded' = [loaded EXCEPT ![r] = [doc |-> files[RacePath(r)]]]
    /\ racePc' = [racePc EXCEPT ![r] = "write"]
    /\ UNCHANGED <<inputs, phase, started, rowIdx, entryIdx, modelFiles, schemaDocs,
                   issues, reports, raised, lateWrites, effects>>
    /\ UNCHANGED <<mergeVars, columnVars, timeoutVars>>

\* lines 194-220: the document in memory is changed and written over the file
RaceWrite(r) ==
    /\ racePc[r] = "write"
    /\ LET row == inputs.rows[r]
           table_dict == TableDict(row, ResolveColumns(mapping, schema_df, Schema(row),
                                                       TableName(row)))
       IN  files' = [files EXCEPT ![RacePath(r)] =
                        MergeTable(loaded[r].doc, Schema(row), table_dict)]
    /\ prevFiles' = files
    /\ last' = [row |-> inputs.rows[r], run |-> r]
    /\ nMerges' = nMerges + 1
    /\ racePc' = [racePc EXCEPT ![r] = "done"]
    /\ UNCHANGED <<mapping, schema_df, loaded>>
    /\ UNCHANGED <<inputs, phase, started, rowIdx, entryIdx, modelFiles, schemaDocs,
                   issues, reports, raised, lateWrites, effects>>
    /\ UNCHANGED <<columnVars, timeoutVars>>

NextRace == \E r \in Runs : RaceLoad(r) \/ RaceWrite(r)

SpecRace == InitRace /\ [][NextRace]_vars

(***************************************************************************)
(* Properties of concurrent merges.                                        *)
(***************************************************************************)
RaceTable(r) == IF inputs.rows[r].table_name = S(" customers") THEN "customers"
                ELSE inputs.rows[r].table_name.s

HoldsTable(doc, name) == \E k \in DOMAIN TablesOf(doc) : TablesOf(doc)[k].name = name

BothDone == \A r \in Runs : racePc[r] = "done"

\* C13: no lock orders two runs on one document: a run may read the document while
\* the other is between its read and its write; what a run writes is the document it
\* read with its own table merged, whatever was written since; so once both runs are
\* through, the document lacks the table of the run that wrote first exactly when the
\* run that wrote last had read the document before that write.
C13_UnprotectedReadModifyWrite ==
    /\ \A r, o \in Runs :
          (r # o /\ racePc[r] = "load" /\ racePc[o] = "write") => ENABLED RaceLoad(r)
    /\ last # NoRow =>
          /\ HoldsTable(files[RacePath(last.run)], RaceTable(last.run))
          /\ \A o \in Runs :
                o # last.run =>
                   (HoldsTable(files[RacePath(o)], RaceTable(o))
                       <=> HoldsTable(loaded[last.run].doc, RaceTable(o)))
    /\ BothDone =>
          \A o \in Runs :
              o # last.run =>
                 (~HoldsTable(files[RacePath(o)], RaceTable(o))
                     <=> ~HoldsTable(loaded[last.run].doc, RaceTable(o)))

\* both runs are through, each wrote its table, and the document has lost one of them
C13_Witness ==
    /\ BothDone
    /\ nMerges = 2
    /\ \E r \in Runs : ~HoldsTable(files[RacePath(r)], RaceTable(r))
    /\ \E r \in Runs : HoldsTable(files[RacePath(r)], RaceTable(r))

(***************************************************************************)
(* A full run: run_full_generation (lines 416-438), called directly or by  *)
(* the generate command through run_with_timeout.  The worker takes one    *)
(* step per phase, per catalog row and per mapping entry; the caller's     *)
(* steps are those of run_with_timeout, and the end of the process ends    *)
(* the daemon thread.                                                      *)
(***************************************************************************)
PhaseOrder == <<"validate-config", "create-directories", "merge-sources",
                "generate-model-bodies", "generate-schema-documents",
                "generate-unit-tests">>

\* a sources.yml that exists and is empty: yaml.safe_load(f) or {} is {}
EmptyFile == [empty |-> TRUE]

ReadCsvLenient(file) == IF file = NoFile THEN [rows |-> <<>>] ELSE [rows |-> file.rows]

\* pd.read_csv(csv_path), line 89
ReadCsv(file) ==
    IF file = NoFile THEN [raise |-> "FileNotFoundError"] ELSE [rows |-> file.rows]

\* line 125-127: the mapping document the merge looks columns up in
MergeMapping(in) == IF in.MAPPING_YAML_PATH # "" THEN mapping ELSE NoFile

\* lines 223-231: what is printed about the linter
LintReport(lint) ==
    CASE lint = "passed" -> [who |-> "linter", what |-> "YAML lint passed"]
      [] lint = "issues" -> [who |-> "linter", what |-> "YAML linting issues"]
      [] lint = "absent" ->
            [who |-> "linter", what |-> "YAML linting could not be performed"]

PhaseAfterFailureContinue(ph) == AfterPhase(ph, inputs)

\* an exception leaves run_full_generation: nothing catches it there
PhaseAfterFailure(ph) == "failed"

Failure(ph, exc) == [exc |-> exc, phase |-> ph]

FileExists(p) == p \in DOMAIN modelFiles /\ modelFiles[p] # NoFile

\* generate_unit_tests, lines 385-391
UnitTestModelPath(entry) ==
    LET model_type == Get(entry, "type", "marts")
        mart_type == Get(entry, "mart_type", "dimensions")
    IN  IF model_type = "marts"
        THEN "models/" \o model_type \o "/" \o mart_type \o "/" \o entry.name \o ".sql"
        ELSE "models/" \o model_type \o "/" \o entry.name \o ".sql"

UnitTestReportGenerated(entry) ==
    IF FileExists(UnitTestModelPath(entry))
    THEN [who |-> "unit-tests", what |-> "Generated unit tests"]
    ELSE [who |-> "unit-tests", what |-> "Model file not found for testing"]

\* generate_unit_tests, lines 377-414: LLMClient has no generate_unit_tests, the
\* AttributeError is caught and logged, and no test file is written
UnitTestReport(entry) ==
    IF FileExists(UnitTestModelPath(entry))
    THEN [who |-> "unit-tests", what |-> "Error generating tests"]
    ELSE [who |-> "unit-tests", what |-> "Model file not found for testing"]

(***************************************************************************)
(* Inputs of the full runs.                                                *)
(***************************************************************************)
RunCatalog ==
    [rows |->
       <<[table_name |-> S("customers"), source_database |-> S("analytics"),
          source_schema |-> S("raw_data"), description |-> S("Customer data from CRM"),
          location |-> S("s3://bucket/raw/"), file_format |-> S("CSV"),
          partition_by |-> S("date"), cluster_by |-> S("created_at"),
          refresh_frequency |-> NoCol],
         [table_name |-> S("orders"), source_database |-> NoCol,
          source_schema |-> NoCol, description |-> S("Customer data from CRM"),
          location |-> S("s3://bucket/raw/"), file_format |-> S("CSV"),
          partition_by |-> NaN, cluster_by |-> S("created_at"),
          refresh_frequency |-> NoCol]>>]

RunDisks == {NoFiles, [NoFiles EXCEPT !["models/default/public/sources.yml"] = EmptyFile]}

RunMapping ==
    [staging_models |-> <<StgCustomers>>, models |-> <<DimCustomers, IntOrders>>]

RunSchemaDf ==
    [rows |->
       <<DfRow("raw_data", "customers", "id", "bigint", B(TRUE), B(FALSE), NaN),
         DfRow("raw_data", "customers", "id", "varchar", B(FALSE), B(TRUE), NaN)>>]

RunReplies ==
    {[choices |-> <<[message |-> [content |-> <<"SELECT 1">>]]>>],
     [error |-> "Request failed"]}

Collaborators ==
    {[linter |-> "passed", formatter |-> "fixed"],
     [linter |-> "issues", formatter |-> "failed"],
     [linter |-> "passed", formatter |-> "timeout"],
     [linter |-> "absent", formatter |-> "absent"]}

PathChoices(arg, configured) == {<<"", "">>, <<arg, "">>, <<"", configured>>}

RunInputs ==
    {[call |-> "run_full_generation", watchdog |-> w, PROJECT_ROOT |-> root,
      mkdir_fails |-> mk, OPENAI_API_KEY |-> env[1], prompts_exist |-> env[2],
      csv_path |-> c[1], SOURCE_CSV_PATH |-> c[2],
      mapping_yaml_path |-> m[1], MAPPING_YAML_PATH |-> m[2],
      catalog |-> cat, disk |-> d,
      sql_response |-> reply, tester_response |-> reply,
      linter |-> col.linter, formatter |-> col.formatter] :
        w \in BOOLEAN, root \in {"", "./dbt_project"}, mk \in BOOLEAN,
        env \in {<<"", FALSE>>, <<"sk-test", TRUE>>},
        c \in PathChoices("source.csv", "./config/source_tables.csv"),
        m \in PathChoices("mapping.yaml", "./config/table_mappings.yaml"),
        cat \in {NoFile, RunCatalog}, d \in RunDisks,
        reply \in RunReplies, col \in Collaborators}

InitRun ==
    /\ inputs \in RunInputs
    /\ mapping \in {NoFile, RunMapping}
    /\ schema_df = RunSchemaDf
    /\ files = inputs.disk
    /\ prevFiles = files
    /\ last = NoRow
    /\ nMerges = 0
    /\ phase = "validate-config"
    /\ started = <<"validate-config">>
    /\ rowIdx = 0
    /\ entryIdx = 0
    /\ modelFiles = [p \in AllModelPaths |-> NoFile]
    /\ schemaDocs = [p \in AllSchemaPaths |-> NoFile]
    /\ issues = NoRow
    /\ reports = <<>>
    /\ raised = NoRow
    /\ lateWrites = 0 /\ effects = <<>>
    /\ racePc = NoRow
    /\ loaded = NoRow
    /\ ColumnsIdle
    /\ IF inputs.watchdog
       THEN /\ mainPc = "start" /\ workerPc = "idle" /\ clock = 0 /\ budget = 1
            /\ dur = 0 /\ behaviour = NoRow /\ result = None /\ exception = None
            /\ aliveAtJoin = FALSE /\ outcome = NoRow /\ report = NoRow
       ELSE TimeoutIdle

ConfigWarning(what) == [who |-> "config", what |-> what]

ValidateConfigStrict(in) ==
    IF in.PROJECT_ROOT = "" THEN [raise |-> "ValueError"]
    ELSE IF in.catalog = NoFile \/ mapping = NoFile THEN [raise |-> "FileNotFoundError"]
    ELSE [return |-> TRUE, warnings |-> <<>>]

\* Config.validate_config, config.py lines 122-159: what it raises, or what it
\* returns and the warnings it logs; a path that is '' or names no file does
\* not exist
ValidateConfigOf(in) ==
    IF in.PROJECT_ROOT = "" THEN [raise |-> "ValueError"]
    ELSE [return |-> TRUE,
          warnings |->
             (IF in.OPENAI_API_KEY = ""
              THEN <<ConfigWarning("OPENAI_API_KEY is not set")>> ELSE <<>>)
             \o (IF in.SOURCE_CSV_PATH = "" \/ in.catalog = NoFile
                 THEN <<ConfigWarning("Configuration file not found: SOURCE_CSV_PATH")>>
                 ELSE <<>>)
             \o (IF schema_df = NoFile
                 THEN <<ConfigWarning("Configuration file not found: SCHEMA_DEFINITIONS_PATH")>>
                 ELSE <<>>)
             \o (IF in.MAPPING_YAML_PATH = "" \/ mapping = NoFile
                 THEN <<ConfigWarning("Configuration file not found: MAPPING_YAML_PATH")>>
                 ELSE <<>>)
             \o (IF ~in.prompts_exist
                 THEN <<ConfigWarning("Prompts directory not found")>> ELSE <<>>)]

\* run_full_generation line 421
ValidateConfig ==
    /\ phase = "validate-config"
    /\ WorkerMayRun
    /\ IF "raise" \in DOMAIN ValidateConfigOf(inputs)
       THEN /\ raised' = Failure(phase, ValidateConfigOf(inputs).raise)
            /\ phase' = PhaseAfterFailure(phase)
            /\ started' = Enter(PhaseAfterFailure(phase))
            /\ UNCHANGED reports
       ELSE /\ phase' = AfterPhase(phase, inputs)
            /\ started' = Enter(AfterPhase(phase, inputs))
            /\ reports' = reports \o ValidateConfigOf(inputs).warnings
            /\ UNCHANGED raised
    /\ UNCHANGED <<inputs, rowIdx, entryIdx, modelFiles, schemaDocs, issues,
                   lateWrites, effects, racePc, loaded>>
    /\ UNCHANGED <<mergeVars, columnVars, timeoutVars>>

\* create_project_structure, lines 32-52
CreateProjectStructure ==
    /\ phase = "create-directories"
    /\ WorkerMayRun
    /\ IF inputs.mkdir_fails
       THEN /\ raised' = Failure(phase, "OSError")
            /\ phase' = PhaseAfterFailure(phase)
            /\ started' = Enter(PhaseAfterFailure(phase))
       ELSE /\ phase' = AfterPhase(phase, inputs)
            /\ started' = Enter(AfterPhase(phase, inputs))
            /\ UNCHANGED raised
    /\ UNCHANGED <<inputs, rowIdx, entryIdx, modelFiles, schemaDocs, issues, reports,
                   lateWrites, effects, racePc, loaded>>
    /\ UNCHANGED <<mergeVars, columnVars, timeoutVars>>

\* generate_external_tables, line 89: the catalog file is not there
ReadCatalogFails ==
    /\ phase = "merge-sources"
    /\ WorkerMayRun
    /\ "raise" \in DOMAIN ReadCsv(inputs.catalog)
    /\ raised' = Failure(phase, ReadCsv(inputs.catalog).raise)
    /\ phase' = PhaseAfterFailure(phase)
    /\ started' = Enter(PhaseAfterFailure(phase))
    /\ UNCHANGED <<inputs, rowIdx, entryIdx, modelFiles, schemaDocs, issues, reports,
                   lateWrites, effects, racePc, loaded>>
    /\ UNCHANGED <<mergeVars, columnVars, timeoutVars>>

\* one iteration of the loop of generate_external_tables, lines 93-231: the row's
\* document read, merged, written and linted; an empty document has no 'sources'
MergeCatalogRow ==
    /\ phase = "merge-sources"
    /\ WorkerMayRun
    /\ "rows" \in DOMAIN ReadCsv(inputs.catalog)
    /\ rowIdx < Len(ReadCsv(inputs.catalog).rows)
    /\ LET row == ReadCsv(inputs.catalog).rows[rowIdx + 1]
       IN  IF files[PathOf(Database(row), Schema(row))] = EmptyFile
           THEN /\ raised' = Failure(phase, "KeyError")
                /\ phase' = PhaseAfterFailure(phase)
                /\ started' = Enter(PhaseAfterFailure(phase))
                /\ UNCHANGED <<files, prevFiles, last, nMerges, rowIdx, reports, lateWrites, effects>>
           ELSE /\ files' = ProcessRow(files, MergeMapping(inputs), schema_df, row)
                /\ prevFiles' = files
                /\ last' = [row |-> row]
                /\ nMerges' = nMerges + 1
                /\ rowIdx' = rowIdx + 1
                /\ reports' = Append(reports, LintReport(inputs.linter))
                /\ lateWrites' = Late(1)
                /\ UNCHANGED effects
                /\ UNCHANGED <<raised, phase, started>>
    /\ UNCHANGED <<inputs, entryIdx, modelFiles, schemaDocs, issues, racePc, loaded>>
    /\ UNCHANGED <<mapping, schema_df>>
    /\ UNCHANGED <<columnVars, timeoutVars>>

\* the loop over the catalog is through: generate_external_tables returns
SourcesReturn ==
    /\ phase = "merge-sources"
    /\ WorkerMayRun
    /\ "rows" \in DOMAIN ReadCsv(inputs.catalog)
    /\ rowIdx = Len(ReadCsv(inputs.catalog).rows)
    /\ phase' = AfterPhase(phase, inputs)
    /\ started' = Enter(AfterPhase(phase, inputs))
    /\ UNCHANGED <<inputs, rowIdx, entryIdx, modelFiles, schemaDocs, issues, reports,
                   raised, lateWrites, effects, racePc, loaded>>
    /\ UNCHANGED <<mergeVars, columnVars, timeoutVars>>

\* generate_models_from_mapping, line 267: the mapping file is not there
ModelsOpenFails ==
    /\ phase = "generate-model-bodies"
    /\ WorkerMayRun
    /\ mapping = NoFile
    /\ raised' = Failure(phase, "FileNotFoundError")
    /\ phase' = PhaseAfterFailure(phase)
    /\ started' = Enter(PhaseAfterFailure(phase))
    /\ UNCHANGED <<inputs, rowIdx, entryIdx, modelFiles, schemaDocs, issues, reports,
                   lateWrites, effects, racePc, loaded>>
    /\ UNCHANGED <<mergeVars, columnVars, timeoutVars>>

\* generate_unit_tests, lines 370-414
GenerateUnitTests ==
    /\ phase = "generate-unit-tests"
    /\ WorkerMayRun
    /\ reports' = reports \o SeqMap(UnitTestReport, Get(mapping, "models", <<>>))
    /\ phase' = AfterPhase(phase, inputs)
    /\ started' = Enter(AfterPhase(phase, inputs))
    /\ UNCHANGED <<inputs, rowIdx, entryIdx, modelFiles, schemaDocs, issues, raised,
                   lateWrites, effects, racePc, loaded>>
    /\ UNCHANGED <<mergeVars, columnVars, timeoutVars>>

\* main.py line 29: run_generation returns None
RunReturns ==
    /\ inputs.watchdog
    /\ phase = "end"
    /\ workerPc = "running"
    /\ mainPc # "exited"
    /\ result' = None
    /\ workerPc' = "done"
    /\ UNCHANGED <<mainPc, clock, budget, dur, behaviour, exception, aliveAtJoin,
                   outcome, report>>
    /\ UNCHANGED <<mergeVars, columnVars, runVars>>

\* main.py lines 30-31: the exception of the run is kept for the caller
RunRaises ==
    /\ inputs.watchdog
    /\ phase = "failed"
    /\ workerPc = "running"
    /\ mainPc # "exited"
    /\ exception' = [exc |-> raised.exc, raised_by |-> "func"]
    /\ workerPc' = "done"
    /\ UNCHANGED <<mainPc, clock, budget, dur, behaviour, result, aliveAtJoin,
                   outcome, report>>
    /\ UNCHANGED <<mergeVars, columnVars, runVars>>

\* a unit of time passes while the caller is blocked in join
RunTick ==
    /\ mainPc = "join"
    /\ ~JoinMayReturn
    /\ clock' = clock + 1
    /\ UNCHANGED <<mainPc, workerPc, budget, dur, behaviour, result, exception,
                   aliveAtJoin, outcome, report>>
    /\ UNCHANGED <<mergeVars, columnVars, runVars>>

\* main.py lines 96, 99 and the end of the command: the process ends, and the
\* daemon thread with it
ProcessExit ==
    /\ mainPc = "done"
    /\ mainPc' = "exited"
    /\ UNCHANGED <<workerPc, clock, budget, dur, behaviour, result, exception,
                   aliveAtJoin, outcome, report>>
    /\ UNCHANGED <<mergeVars, columnVars, runVars>>

WorkerNext ==
    \/ ValidateConfig
    \/ CreateProjectStructure
    \/ ReadCatalogFails
    \/ MergeCatalogRow
    \/ SourcesReturn
    \/ ModelsOpenFails
    \/ GenerateModel(inputs.formatter)
    \/ ModelsReturn
    \/ GenerateSchemaFiles
    \/ GenerateUnitTests
    \/ RunReturns
    \/ RunRaises

NextRun ==
    \/ WorkerNext
    \/ ThreadStart
    \/ RunTick
    \/ Join
    \/ RaiseTimeout
    \/ ReRaise
    \/ ReturnResult
    \/ Generate
    \/ ProcessExit

SpecRun == InitRun /\ [][NextRun]_vars

(***************************************************************************)
(* Properties of the timed-out run.                                        *)
(***************************************************************************)
Row1Path == "models/analytics/raw_data/sources.yml"
Row2Path == "models/default/public/sources.yml"

\* no step removes a document that is on disk
DocumentsKept ==
    /\ \A p \in DOMAIN files : files[p] # NoFile => files'[p] # NoFile
    /\ \A p \in DOMAIN modelFiles : modelFiles[p] # NoFile => modelFiles'[p] # NoFile
    /\ \A p \in DOMAIN schemaDocs : schemaDocs[p] # NoFile => schemaDocs'[p] # NoFile

\* C12: once run_with_timeout has raised its TimeoutError the worker is not
\* cancelled: as long as the process lives, the worker's next step can be taken
\* (whatever has been reported), and no step of the caller or of the worker
\* removes a document that was written
C12_TimeoutDoesNotCancelWorker ==
    /\ [](( /\ inputs.watchdog
            /\ workerPc = "running"
            /\ mainPc # "exited") => ENABLED WorkerNext)
    /\ [][DocumentsKept]_vars

\* the timeout was reported, a source document was written after it, and the
\* process ended with the first catalog row merged and the second one not
C12_Witness ==
    /\ report # NoRow
    /\ WatchdogTimeout
    /\ report.message = "Operation timed out after 50 seconds"
    /\ mainPc = "exited"
    /\ lateWrites >= 1
    /\ rowIdx = 1
    /\ files[Row1Path] # NoFile
    /\ files[Row2Path] = NoFile
    /\ phase = "merge-sources"

(***************************************************************************)
(* Properties of the order of the phases.                                  *)
(***************************************************************************)
Phases == {PhaseOrder[i] : i \in 1..Len(PhaseOrder)}

PhaseIndex(ph) == CHOOSE i \in 1..Len(PhaseOrder) : PhaseOrder[i] = ph

Ran(ph) == \E i \in 1..Len(started) : started[i] = ph

MappingPhases ==
    {"generate-model-bodies", "generate-schema-documents", "generate-unit-tests"}

\* C14: the phases of run_full_generation start in the fixed order, none of
\* them twice and one at a time; in a run that came to its end, merge-sources
\* was skipped exactly when no CSV path was passed or configured, and the
\* three mapping phases exactly when no mapping path was passed or configured
C14_PhasesInFixedOrder ==
    /\ \A i \in 1..Len(started) : started[i] \in Phases
    /\ \A i, j \in 1..Len(started) :
          i < j => PhaseIndex(started[i]) < PhaseIndex(started[j])
    /\ phase \in Phases => started[Len(started)] = phase
    /\ phase = "end" =>
          /\ Ran("validate-config") /\ Ran("create-directories")
          /\ Ran("merge-sources") <=>
                (inputs.csv_path # "" \/ inputs.SOURCE_CSV_PATH # "")
          /\ \A ph \in MappingPhases :
                Ran(ph) <=> (inputs.mapping_yaml_path # "" \/ inputs.MAPPING_YAML_PATH # "")

\* a run that came to its end through all six phases, both paths known from the
\* configuration only
C14_Witness ==
    /\ phase = "end"
    /\ started = PhaseOrder
    /\ inputs.csv_path = "" /\ inputs.SOURCE_CSV_PATH # ""
    /\ inputs.mapping_yaml_path = "" /\ inputs.MAPPING_YAML_PATH # ""

(***************************************************************************)
(* Properties of a failed phase.                                           *)
(***************************************************************************)
RECURSIVE MergedUpTo(_)
\* the source documents once the first n rows of the catalog are merged
MergedUpTo(n) ==
    IF n = 0 THEN inputs.disk
    ELSE ProcessRow(MergedUpTo(n - 1), MergeMapping(inputs), schema_df,
                    inputs.catalog.rows[n])

Times(ph) == Cardinality({i \in 1..Len(started) : started[i] = ph})

FailureReachedCaller ==
    /\ workerPc = "done" => exception = [exc |-> raised.exc, raised_by |-> "func"]
    /\ (outcome # NoRow /\ ~WatchdogTimeout) =>
          outcome = [kind |-> "raise",
                     exception |-> [exc |-> raised.exc, raised_by |-> "func"]]
    /\ report # NoRow => report.exit = 1
    /\ (report # NoRow /\ ~WatchdogTimeout) =>
          report.message = "Error generating project"

\* C15: once a phase of a full run has failed, the run is over: the failed
\* phase is the last one started and was started once, the exception is what
\* the caller gets (unless the watchdog had given up before), the source
\* documents are those of the catalog rows merged before the failure, and
\* from then on no file is written, changed or removed
C15_FailureAbortsRun ==
    /\ [](raised # NoRow =>
            /\ phase = "failed"
            /\ started[Len(started)] = raised.phase
            /\ Times(raised.phase) = 1
            /\ inputs.watchdog => FailureReachedCaller
            /\ files = (IF inputs.catalog = NoFile THEN inputs.disk
                        ELSE MergedUpTo(rowIdx)))
    /\ [][raised # NoRow => UNCHANGED <<files, modelFiles, schemaDocs, started, raised>>]_vars

\* the second catalog row failed on an empty document after the first row was
\* merged, and the command reported the failure
C15_Witness ==
    /\ raised # NoRow
    /\ raised = [exc |-> "KeyError", phase |-> "merge-sources"]
    /\ rowIdx = 1
    /\ files[Row1Path] # NoFile
    /\ files[Row2Path] = EmptyFile
    /\ report # NoRow
    /\ report.message = "Error generating project"
    /\ inputs.mapping_yaml_path # ""

(***************************************************************************)
(* Properties of a missing catalog.                                        *)
(***************************************************************************)
\* C17: with the catalog file missing, generate_external_tables touches no
\* source document, and once it has been called and is over it has raised
\* FileNotFoundError to run_full_generation, which does not catch it
C17_MissingCatalogPropagates ==
    inputs.catalog = NoFile =>
        /\ files = inputs.disk
        /\ rowIdx = 0
        /\ nMerges = 0
        /\ (Ran("merge-sources") /\ phase # "merge-sources") =>
              /\ raised = [exc |-> "FileNotFoundError", phase |-> "merge-sources"]
              /\ phase = "failed"

\* the call on a missing catalog is over, with a document of an earlier run
\* on disk as it was
C17_Witness ==
    /\ inputs.catalog = NoFile
    /\ ~inputs.watchdog
    /\ inputs.disk[Row2Path] = EmptyFile
    /\ files = inputs.disk
    /\ raised = [exc |-> "FileNotFoundError", phase |-> "merge-sources"]
    /\ phase = "failed"

(***************************************************************************)
(* Properties of the failures of the collaborators.                        *)
(***************************************************************************)
\* nothing is wrong with the inputs of the run itself
NoInputFault ==
    /\ inputs.PROJECT_ROOT # ""
    /\ ~inputs.mkdir_fails
    /\ CsvKnown(inputs) => (inputs.catalog # NoFile /\ inputs.disk = NoFiles)
    /\ MappingKnown(inputs) => mapping # NoFile

ErrorReply(response) == "error" \in DOMAIN response

FallbackFile ==
    [text |-> <<"-- ", "No tester suggestions.", NL, "-- ", "-- No code generated">>]

ByLinter(r) == r.who = "linter"

ByFormatter(r) == r.who = "formatter"

\* C18: whatever the text-generation service, the linter and the formatter
\* do, the run does not fail on their account: the model file of every entry
\* gone through is written, with the fallback text when the service answered
\* with an error; every merged row has its one linter line and every entry its
\* one formatter line when the formatter did not succeed; and a run that came
\* to its end went through every catalog row and every mapping entry
C18_CollaboratorFailureNeverAborts ==
    /\ NoInputFault => (raised = NoRow /\ phase # "failed")
    /\ \A i \in 1..entryIdx :
          LET p == ModelPath(ModelEntriesOf(mapping)[i])
          IN  /\ modelFiles[p] # NoFile
              /\ (ErrorReply(inputs.sql_response) /\ ErrorReply(inputs.tester_response))
                    => modelFiles[p] = FallbackFile
    /\ SelectSeq(reports, ByLinter) = [i \in 1..rowIdx |-> LintReport(inputs.linter)]
    /\ Len(SelectSeq(reports, ByFormatter)) =
          (IF inputs.formatter = "fixed" THEN 0 ELSE entryIdx)
    /\ (NoInputFault /\ phase = "end") =>
          /\ CsvKnown(inputs) => rowIdx = Len(inputs.catalog.rows)
          /\ MappingKnown(inputs) => entryIdx = Len(ModelEntriesOf(mapping))

\* a run that came to its end with the service answering with an error and
\* neither yamllint nor sqlfluff installed
C18_Witness ==
    /\ phase = "end"
    /\ ErrorReply(inputs.sql_response)
    /\ inputs.linter = "absent"
    /\ inputs.formatter = "absent"
    /\ rowIdx = 2
    /\ entryIdx = 3
    /\ modelFiles["models/staging/stg_customers.sql"] = FallbackFile
    /\ modelFiles["models/marts/dim_customers.sql"] = FallbackFile
    /\ raised = NoRow

(***************************************************************************)
(* Properties of the columns of the schema documents.                      *)
(***************************************************************************)
\* the description a column spec is documented with
DocumentedDescription(column) ==
    IF "transformation" \in DOMAIN column /\ column.transformation # ""
    THEN column.description \o " (Transformation: " \o column.transformation \o ")"
    ELSE column.description

\* C21: in every schema document written, the models are the entries of the
\* group in input order, each with its columns in input order, and every
\* column has the keys name and description and no other: the name of the
\* column spec, and its description, followed by ' (Transformation: <t>)'
\* exactly when the spec has a non-empty transformation t
C21_ColumnsNameAndDescriptionOnly ==
    SchemasGenerated =>
        \A p \in AllSchemaPaths :
            schemaDocs[p] # NoFile =>
                /\ Len(schemaDocs[p].models) = Len(EntriesAt(p))
                /\ \A k \in DOMAIN EntriesAt(p) :
                      LET entry == EntriesAt(p)[k]
                          written == schemaDocs[p].models[k]
                      IN  /\ written.name = entry.name
                          /\ Len(written.columns) = Len(entry.columns)
                          /\ \A c \in DOMAIN entry.columns :
                                /\ DOMAIN written.columns[c] = {"name", "description"}
                                /\ written.columns[c].name = entry.columns[c].name
                                /\ written.columns[c].description =
                                      DocumentedDescription(entry.columns[c])

\* a document whose model has a required primary-key column with a
\* transformation and a required column with an empty transformation
C21_Witness ==
    /\ SchemasGenerated
    /\ Len(ModelsList) = 2
    /\ ModelsList[2].columns = TestedColumns
    /\ "type" \in DOMAIN ModelsList[2] /\ ModelsList[2].type = "staging"
    /\ ModelsList[1].columns = <<IdColumn, NameColumn>>
    /\ "type" \in DOMAIN ModelsList[1] /\ ModelsList[1].type = "staging"
    /\ schemaDocs["models/staging/schema.yml"].models[2].columns =
          <<[name |-> "status", description |-> "Order status (Transformation: upper(status))"],
            [name |-> "amount", description |-> "Order amount"]>>

(***************************************************************************)
(* Properties of the files and requests of the model bodies.               *)
(***************************************************************************)
Processed == SubSeq(ModelEntriesOf(mapping), 1, entryIdx)

IsModelWrite(ef) == ef.op = "write" /\ ef.target \in AllModelPaths

IsLogWrite(ef) == ef.op = "write" /\ ef.target \notin AllModelPaths

ClaimedModelPath(entry) ==
    IF "type" \in DOMAIN entry /\ entry.type = "marts"
    THEN "models/marts/" \o entry.name \o ".sql"
    ELSE "models/" \o (IF "type" \in DOMAIN entry THEN entry.type ELSE "staging")
             \o "/" \o entry.name \o ".sql"

\* C22: each processed entry caused one write of a model file, at
\* models/marts/<name>.sql when its type is marts and at models/<type>/<name>.sql
\* otherwise (staging when it has no type), and one write of its audit log
\* logs/model_generation_<name>.log; no other model file exists
C22_OneModelFileAndLogPerEntry ==
    (mapping # NoFile /\ phase # "idle") =>
        /\ Len(SelectSeq(effects, IsModelWrite)) = entryIdx
        /\ Len(SelectSeq(effects, IsLogWrite)) = entryIdx
        /\ \A i \in 1..entryIdx :
              /\ SelectSeq(effects, IsModelWrite)[i].target = ClaimedModelPath(Processed[i])
              /\ SelectSeq(effects, IsLogWrite)[i].target =
                    "logs/model_generation_" \o Processed[i].name \o ".log"
              /\ modelFiles[ClaimedModelPath(Processed[i])] # NoFile
        /\ \A p \in AllModelPaths :
              modelFiles[p] # NoFile => \E i \in 1..entryIdx : p = ClaimedModelPath(Processed[i])

\* a staging entry without a type and a marts entry with a mart_type, both written
C22_Witness ==
    /\ mapping = [staging_models |-> <<StgCustomers>>, models |-> <<DimCustomers>>]
    /\ entryIdx = 2
    /\ modelFiles["models/staging/stg_customers.sql"] # NoFile
    /\ modelFiles["models/marts/dim_customers.sql"] # NoFile
    /\ modelFiles["models/intermediate/int_orders.sql"] = NoFile
    /\ Len(effects) = 10

IsRequest(ef) == ef.op = "request"

\* C23: the entries are gone through one at a time, the staging_models list
\* first and then the models list, each in its order; the i-th entry's audit
\* log is written, then its model request and its checklist request are
\* issued, once each whatever the replies, then its model file is written,
\* all before anything is done for the next entry
C23_AuditThenTwoRequestsThenFile ==
    (mapping # NoFile /\ phase # "idle") =>
        /\ Len(effects) = 5 * entryIdx
        /\ Len(SelectSeq(effects, IsRequest)) = 2 * entryIdx
        /\ \A i \in 1..entryIdx :
              LET entry == AllEntries[i]
                  at == 5 * (i - 1)
              IN  /\ \A k \in 1..5 : effects[at + k].entry = entry.name
                  /\ effects[at + 1].op = "write"
                  /\ effects[at + 1].target = "logs/model_generation_" \o entry.name \o ".log"
                  /\ effects[at + 2] = [op |-> "request", target |-> "model", entry |-> entry.name]
                  /\ effects[at + 3] = [op |-> "request", target |-> "checklist", entry |-> entry.name]
                  /\ effects[at + 4].op = "write"
                  /\ effects[at + 4].target \in AllModelPaths

\* both entries of a mapping document gone through with the service answering
\* with an error each time
C23_Witness ==
    /\ mapping = [staging_models |-> <<StgCustomers>>, models |-> <<DimCustomers>>]
    /\ entryIdx = 2
    /\ "error" \in DOMAIN inputs.sql_response
    /\ "error" \in DOMAIN inputs.tester_response
    /\ Len(SelectSeq(effects, IsRequest)) = 4
    /\ effects[1].entry = "stg_customers"
    /\ effects[6].entry = "dim_customers"

(***************************************************************************)
(* Properties of the format pass.                                          *)
(***************************************************************************)
\* the content generated for a model, before any formatting
Unformatted == ModelFileOf(inputs.sql_response, inputs.tester_response).text

\* C24 as claimed: the file of every processed entry holds what the formatter
\* made of the generated content, which is the formatted content when sqlfluff
\* succeeded and the unformatted content when it failed, timed out or is
\* absent, and the formatter was called before the file was written
C24_Claimed_FormattedBeforeWrite ==
    (inputs # NoRow /\ inputs.call = "run_full_generation") =>
        \A i \in 1..entryIdx :
            /\ modelFiles[ModelPath(AllEntries[i])].text =
                  FormatSql(Unformatted, inputs.formatter).text
            /\ \E f, w \in DOMAIN effects :
                  /\ f < w
                  /\ effects[f].op = "format" /\ effects[f].entry = AllEntries[i].name
                  /\ effects[w].op = "write" /\ effects[w].target = ModelPath(AllEntries[i])

(***************************************************************************)
(* Properties of validate_schema on the loaded schema definitions.         *)
(***************************************************************************)
\* the rows of the schema catalog that belong to a table
RowsOfKey(key) == LET Keep(row) == TableKey(row) = key IN SelectSeq(schema_df.rows, Keep)

RepeatsName(key) ==
    \E i, k \in DOMAIN RowsOfKey(key) :
        i # k /\ RowsOfKey(key)[i].column_name = RowsOfKey(key)[k].column_name

LacksName(key) ==
    \E i \in DOMAIN RowsOfKey(key) : RowsOfKey(key)[i].column_name \in {"", EmptyCell}

LacksType(key) ==
    \E i \in DOMAIN RowsOfKey(key) : RowsOfKey(key)[i].data_type \in {"", EmptyCell}

\* C25 as claimed: for the schema definitions loaded from the catalog,
\* validate_schema returns an issue for every table that repeats a column
\* name, for every table with a column without a name and for every table
\* with a column without a type, and no issue at all exactly when no table has
\* any of these
C25_Claimed_ValidateSchemaFlagsAll ==
    (SchemasGenerated /\ schema_df # NoFile) =>
        LET keys == {TableKey(schema_df.rows[i]) : i \in DOMAIN schema_df.rows}
        IN  /\ \A key \in keys :
                  /\ RepeatsName(key) <=>
                        \E is \in issues.list :
                            is.issue = "Duplicate column names" /\ is.table = key
                  /\ LacksName(key) <=>
                        \E is \in issues.list :
                            is.issue = "Missing column name" /\ is.table = key
                  /\ LacksType(key) <=>
                        \E is \in issues.list :
                            is.issue = "Missing data type" /\ is.table = key
            /\ issues.list = {} <=>
                  \A key \in keys : ~RepeatsName(key) /\ ~LacksName(key) /\ ~LacksType(key)

(***************************************************************************)
(* Properties of the validation of the configuration.                      *)
(***************************************************************************)
ValidationOver == Len(started) >= 2 \/ raised # NoRow

\* C26: validate_config fails, with ValueError, exactly when PROJECT_ROOT is
\* empty; with PROJECT_ROOT set it passes and the run goes on to create the
\* directories, whether or not the API key is set and the catalog, the schema
\* definitions, the mapping document and the prompts directory exist, and
\* only logs what is missing
C26_ValidateConfigOnlyNeedsProjectRoot ==
    (inputs # NoRow /\ inputs.call = "run_full_generation" /\ ValidationOver) =>
        /\ (raised # NoRow /\ raised.phase = "validate-config") <=> inputs.PROJECT_ROOT = ""
        /\ inputs.PROJECT_ROOT = "" => raised.exc = "ValueError"
        /\ inputs.PROJECT_ROOT # "" =>
              /\ Ran("create-directories")
              /\ (inputs.OPENAI_API_KEY = "") <=>
                    \E i \in DOMAIN reports :
                        reports[i] = [who |-> "config", what |-> "OPENAI_API_KEY is not set"]
              /\ (~inputs.prompts_exist) <=>
                    \E i \in DOMAIN reports :
                        reports[i] = [who |-> "config", what |-> "Prompts directory not found"]

\* validation passed with no API key, no catalog, no mapping document and no
\* prompts directory, and the run failed later on the missing catalog
C26_Witness ==
    /\ inputs # NoRow /\ inputs.call = "run_full_generation"
    /\ inputs.PROJECT_ROOT # ""
    /\ inputs.OPENAI_API_KEY = ""
    /\ inputs.catalog = NoFile
    /\ mapping = NoFile
    /\ ~inputs.prompts_exist
    /\ Ran("merge-sources")
    /\ raised = [exc |-> "FileNotFoundError", phase |-> "merge-sources"]

(***************************************************************************)
(* Properties of the paths the phases of a run use for one model.          *)
(***************************************************************************)
NotFound == [who |-> "unit-tests", what |-> "Model file not found for testing"]

\* C27 as claimed: for every entry of the models list the unit-test phase
\* looks for the model file where the body phase wrote it, the schema phase
\* documents the model in the directory of that file, and so the unit-test
\* phase of a run that wrote the bodies reports no model file as not found
C27_Claimed_PhasesAgreeOnPaths ==
    (inputs # NoRow /\ inputs.call = "run_full_generation" /\ mapping # NoFile
        /\ Ran("generate-unit-tests") /\ phase # "generate-unit-tests") =>
        /\ \A i \in DOMAIN ModelsList :
              /\ UnitTestModelPath(ModelsList[i]) = ModelPath(ModelsList[i])
              /\ ModelPath(ModelsList[i]) =
                    GroupKey(ModelsList[i]) \o "/" \o ModelsList[i].name \o ".sql"
        /\ \A k \in DOMAIN reports : reports[k] # NotFound

(***************************************************************************)
(* generate_external_tables called twice over one catalog, the mapping     *)
(* document and the schema catalog unchanged in between: catalogs of up to *)
(* MaxCatalog rows, most of them for one document, started from no         *)
(* document or from a document that holds a table already.                 *)
(***************************************************************************)
MaxCatalog == 3

RerunRows ==
    {row \in CatalogRows :
        \/ row.source_database = S("analytics") /\ row.source_schema = S("raw_data")
        \/ /\ row.source_database = NoCol /\ row.source_schema = NoCol
           /\ row.table_name = S("orders") /\ row.partition_by = NaN}

InitRerun ==
    /\ mapping \in MergeMappings
    /\ schema_df \in MergeDfs
    /\ inputs \in
          {[call |-> "generate_external_tables", watchdog |-> FALSE, linter |-> "passed",
            MAPPING_YAML_PATH |-> "./config/table_mappings.yaml",
            catalog |-> [rows |-> rows], disk |-> d] :
              rows \in SeqsUpTo(RerunRows, MaxCatalog) \ {<<>>},
              d \in {NoFiles,
                     ProcessRow(NoFiles, NoFile, NoFile,
                                CHOOSE row \in RerunRows :
                                    /\ row.table_name = S("orders")
                                    /\ row.source_schema = S("raw_data")
                                    /\ row.partition_by = NaN)}}
    /\ files = inputs.disk
    /\ prevFiles = files
    /\ last = NoRow
    /\ nMerges = 0
    /\ phase = "merge-sources"
    /\ started = <<"merge-sources">>
    /\ rowIdx = 0 /\ entryIdx = 0 /\ modelFiles = NoRow /\ schemaDocs = NoRow
    /\ issues = NoRow /\ reports = <<>> /\ raised = NoRow /\ lateWrites = 0 /\ effects = <<>>
    /\ racePc = NoRow /\ loaded = NoRow
    /\ ColumnsIdle
    /\ TimeoutIdle

\* the caller calls generate_external_tables a second time with the same catalog
CallAgain ==
    /\ phase = "end"
    /\ inputs.call = "generate_external_tables"
    /\ Len(started) = 1
    /\ phase' = "merge-sources"
    /\ started' = Append(started, "merge-sources")
    /\ rowIdx' = 0
    /\ UNCHANGED <<inputs, entryIdx, modelFiles, schemaDocs, issues, reports, raised,
                   lateWrites, effects, racePc, loaded>>
    /\ UNCHANGED <<mergeVars, columnVars, timeoutVars>>

NextRerun ==
    \/ MergeCatalogRow
    \/ SourcesReturn
    \/ CallAgain

SpecRerun == InitRerun /\ [][NextRerun]_vars

(***************************************************************************)
(* Properties of the repeated merge.                                       *)
(***************************************************************************)
RerunRowsOf == inputs.catalog.rows

LastOfItsName(i) ==
    \A k \in DOMAIN RerunRowsOf :
        k > i => \/ TableName(RerunRowsOf[k]) # TableName(RerunRowsOf[i])
                 \/ PathOf(Database(RerunRowsOf[k]), Schema(RerunRowsOf[k]))
                       # PathOf(Database(RerunRowsOf[i]), Schema(RerunRowsOf[i]))

\* C28: when a call over the catalog is over, every source document is what the
\* first call left, table order included: the second call changes nothing in
\* the end; and for every table name of a document the entry is the one built
\* from the last catalog row of that name, and is there once
C28_RerunLeavesDocumentsAsTheyWere ==
    (inputs # NoRow /\ inputs.call = "generate_external_tables" /\ "disk" \in DOMAIN inputs
        /\ phase = "end") =>
        /\ files = MergedUpTo(Len(RerunRowsOf))
        /\ \A i \in DOMAIN RerunRowsOf :
              LastOfItsName(i) =>
                 LET row == RerunRowsOf[i]
                     doc == files[PathOf(Database(row), Schema(row))]
                     same == {k \in DOMAIN TablesOf(doc) :
                                 TablesOf(doc)[k].name = TableName(row)}
                 IN  /\ Cardinality(same) = 1
                     /\ \A k \in same :
                           TablesOf(doc)[k] =
                              TableDict(row, ResolveColumns(mapping, schema_df, Schema(row),
                                                            TableName(row)))

\* the second call is over for a catalog that names customers, orders and
\* customers again for one document that held orders before
C28_Witness ==
    /\ inputs # NoRow /\ inputs.call = "generate_external_tables" /\ "disk" \in DOMAIN inputs
    /\ phase = "end"
    /\ Len(started) = 2
    /\ inputs.disk # NoFiles
    /\ Len(RerunRowsOf) = 3
    /\ TableName(RerunRowsOf[1]) = "customers"
    /\ TableName(RerunRowsOf[2]) = "orders"
    /\ TableName(RerunRowsOf[3]) = "customers"
    /\ RerunRowsOf[1] # RerunRowsOf[3]
    /\ \A i \in 1..3 : Schema(RerunRowsOf[i]) = "raw_data"
    /\ NamesOf(TablesOf(files["models/analytics/raw_data/sources.yml"])) = <<"orders", "customers">>

(***************************************************************************)
(* Properties of a merge into an empty file.                               *)
(***************************************************************************)
\* C29 as claimed: a merge into a path where an empty file lies succeeds like
\* a merge into an absent file, and leaves a document with the new table
C29_Claimed_EmptyFileLikeAbsent ==
    (inputs # NoRow /\ inputs.call = "run_full_generation" /\ inputs.catalog # NoFile
        /\ inputs.disk[Row2Path] = EmptyFile
        /\ Ran("merge-sources") /\ phase # "merge-sources") =>
        /\ raised = NoRow
        /\ files[Row2Path] # EmptyFile
        /\ files[Row2Path] =
              ProcessRow(NoFiles, MergeMapping(inputs), schema_df,
                         inputs.catalog.rows[2])[Row2Path]

(***************************************************************************)
(* Properties of the unit-test phase.                                      *)
(***************************************************************************)
ByUnitTests(r) == r.who = "unit-tests"

\* C30: the unit-test phase never fails and writes nothing: once it is over
\* the run is at its end without an exception, there is one log line per entry
\* of the models list, in order ('Model file not found for testing' when the
\* file is not where the phase looks, 'Error generating tests' when it is, the
\* client having no operation to generate tests), and the command that was
\* not timed out reports success; the step of the phase changes no file
C30_UnitTestFailuresOnlyLogged ==
    /\ []((inputs # NoRow /\ inputs.call = "run_full_generation" /\ mapping # NoFile
             /\ Ran("generate-unit-tests") /\ phase # "generate-unit-tests") =>
            /\ phase = "end"
            /\ raised = NoRow
            /\ Len(SelectSeq(reports, ByUnitTests)) = Len(ModelsList)
            /\ \A i \in DOMAIN ModelsList :
                  SelectSeq(reports, ByUnitTests)[i].what =
                     (IF /\ UnitTestModelPath(ModelsList[i]) \in DOMAIN modelFiles
                         /\ modelFiles[UnitTestModelPath(ModelsList[i])] # NoFile
                      THEN "Error generating tests"
                      ELSE "Model file not found for testing")
            /\ (report # NoRow /\ outcome.kind = "return") =>
                  report = [message |-> "dbt project generated successfully", exit |-> 0]
            /\ (report # NoRow /\ outcome.kind = "raise") => WatchdogTimeout)
    /\ [][phase = "generate-unit-tests" =>
             UNCHANGED <<files, modelFiles, schemaDocs, effects>>]_vars

\* a run reported as successful whose unit-test phase did not find the file of
\* one model and could not generate the test of the other
C30_Witness ==
    /\ inputs # NoRow /\ inputs.call = "run_full_generation"
    /\ phase = "end"
    /\ Ran("generate-unit-tests")
    /\ SelectSeq(reports, ByUnitTests) =
          <<[who |-> "unit-tests", what |-> "Model file not found for testing"],
            [who |-> "unit-tests", what |-> "Error generating tests"]>>
    /\ report = [message |-> "dbt project generated successfully", exit |-> 0]

====
